---- MODULE Spec2Model ----
(***************************************************************************)
(* State-machine model of the GameScreen component (src/unnamed/part_002), *)
(* its entity factory (src/utils/gameEntityFactory.ts), the frame loop     *)
(* (src/unnamed/part_001) and the input poll (src/hooks/useInput.ts).      *)
(*                                                                         *)
(* One Tick is one animation frame: the gameLoop callback runs against the *)
(* values of the last render (the closure's player, enemies, bullets, ...),*)
(* queues its state updates, and the following render applies every queued *)
(* update hook by hook and runs the effects.                               *)
(*                                                                         *)
(* Lengths are counted in tenths of a pixel (Px units per pixel).  The      *)
(* numbers of the program are IEEE-754 doubles: a length that is no whole   *)
(* number of tenths carries its distance from the nearest whole number, in  *)
(* the field off of its entity (see the section on doubles).               *)
(***************************************************************************)
EXTENDS Integers, Sequences, FiniteSets, TLC

VARIABLES
    player,              \* useState<Player>
    enemies,             \* useState<Enemy[]>
    bullets,             \* useState<Bullet[]>
    cages,               \* useState<RescueCage[]>
    crates,              \* useState<Crate[]>
    explosions,          \* useState<Explosion[]>
    turrets,             \* useState<Turret[]>
    powerUps,            \* useState<PowerUp[]>
    score,               \* useState(0)
    levelIndex,          \* useState(0)
    bulletCooldown,      \* useState(0)
    yVelocity,           \* useState(0)
    coyoteTimeCounter,   \* useRef(0)
    levelStartTime,      \* useRef(0): Date.now() at the last spawnLevel
    reinforcementTimer,  \* useRef(0)
    prevEnemiesCount,    \* useRef(0)
    scoreRef,            \* useRef(0)
    jumpBuffer,          \* useInput: jumpBuffer ref
    idCounter,           \* GameEntityFactory.idCounter
    now,                 \* Date.now(), in ms
    difficulty,          \* prop: "EASY" | "NORMAL" | "HARD"
    updaterMode,         \* when a queued updater function runs (see Tick)
    damageEvents,        \* the damageEvents batch of the last gameLoop call
    dropped,             \* ids of the pickups the last tick created
    swapRequests,        \* number of swapHero() calls so far
    gameOverCalls,       \* the scores the mounted GameScreen has called
                         \* onGameOver with, in order
    sounds,              \* audioService.playSound cues of the last tick
    jumpHonoured,        \* number of jumps performed so far
    lastShot,            \* the avatar's last primary fire: the weapon, the
                         \* active effect, the gameLoop calls since
    frame,               \* what the last gameLoop call saw: the jump command
                         \* polled, whether the jump buffer was armed for it,
                         \* onGround and isWallSliding of its physics step
    deployedAt,          \* the number of the gameLoop call that deployed a
                         \* turret last, 0 before the first
    lastJump,            \* the jumping logic of the last gameLoop call: the
                         \* values it tested, the branch it took, and the
                         \* double jumps since the avatar was last grounded
    firedAt,             \* for each hostile in the store that has fired,
                         \* the number of the gameLoop call of its last shot
    volley,              \* what createEnemyBullet pushed to newBullets in
                         \* the last gameLoop call, for the hostiles and
                         \* for the turrets
    called,              \* the last call the factory's test script made:
                         \* the method, its arguments and its result
    levels,              \* the level data of ../levels
    gameState,           \* App's gameState as of App's last render:
                         \* "PLAYING", "GAME_OVER" or "MENU"
    finalScore,          \* App's finalScore as of App's last render
    characterData,       \* App's characterData is set (TRUE) or null
    appUpdates,          \* what App waits for: the state updates queued
                         \* since its last render, the saveHighScore puts
                         \* awaited, and the gameLoop calls made since the
                         \* first of the queued updates
    mounts,              \* the number of times App has mounted GameScreen
    retry,               \* the retryOperation call of the character
                         \* service: where it is, the retries and the delay
                         \* of its current invocation, the operation calls
                         \* and the waits so far, the last error caught, and
                         \* what it returned or threw
    ticks                \* number of gameLoop calls of the mounted
                         \* GameScreen so far

vars == << player, enemies, bullets, cages, crates, explosions, turrets,
           powerUps, score, levelIndex, bulletCooldown, yVelocity,
           coyoteTimeCounter, levelStartTime, reinforcementTimer,
           prevEnemiesCount, scoreRef, jumpBuffer, idCounter, now, difficulty,
           updaterMode, damageEvents, dropped, swapRequests, gameOverCalls,
           sounds, jumpHonoured, lastJump, lastShot, frame, deployedAt, firedAt,
           volley, called, levels, gameState, finalScore, characterData,
           appUpdates, mounts, retry, ticks >>

----------------------------------------------------------------------------
(* Bounds of the model.                                                    *)

\* gameLoop calls per run.
MaxTicks == 17

\* Milliseconds of Date.now() that pass between two frames.
FrameMs == 160

\* gameLoop calls per run with movement.
JumpTicks == 12

\* gameLoop calls per run without input.
SiegeTicks == 2120

\* gameLoop calls after which the avatar's last shot is no longer told
\* apart from an older one.
ShotMemory == 12

\* Frames of a run with the fire key held.
BarrageTicks == 45

\* gameLoop calls in which the avatar walks left to the platform's edge, and
\* gameLoop calls per run over the edge.
WalkOffTicks == 30
LedgeTicks == 38

\* gameLoop calls per run with walking hostiles.
PatrolTicks == 640

\* gameLoop calls per run in which the hostiles fire again and again.
VolleyTicks == 356

\* gameLoop calls in which the avatar walks left to the world's edge, and
\* gameLoop calls per run at the edge.
WalkToEdgeTicks == 100
EdgeTicks == 114

\* gameLoop calls per run with dashes.
DashTicks == 8

\* The factory's test script stops when the next identifier is this one.
FactoryIds == 9

\* gameLoop calls per run through the levels.
CampaignTicks == 220

\* gameLoop calls per run that starts with pickups on the field, and the
\* first calls of such a run, in which the avatar walks.
PickupTicks == 640
WalkWindow == 16

\* gameLoop calls per run in which the avatar climbs the ledges and fires
\* from the highest.
MarginTicks == 260

\* Frames the loop may deliver between a state update that an effect of
\* GameScreen queues for App and the render of App that applies it.
RenderLag == 2

\* Games per run of App: the first and those started again from the menu.
MaxMounts == 2

\* gameLoop calls of a game started again from the menu.
ReplayTicks == 2

\* onGameOver calls per game in the runs of App by itself.
MaxCalls == 2

\* gameLoop calls per run with a turret, and the first calls of such a run,
\* in which the special key may go down.
TurretTicks == 605
DeployWindow == 3

----------------------------------------------------------------------------
(* Number representation and the constants of ../constants (not in src/).  *)

Px == 10

\* A hostile's shootCooldown counts hundredths of a gameLoop call: the
\* level data and the difficulty factors give whole calls, and a shot sets
\* it to 90 + Math.random() * 60, which is no whole number (line 525).
H == 100

GAME_WIDTH == 8000
GAME_HEIGHT == 6000
PLAYER_WIDTH == 400
PLAYER_HEIGHT == 500
PLAYER_SPEED == 40
PLAYER_JUMP_FORCE == 150
PLAYER_MAX_HEALTH == 100
PLAYER_STARTING_LIVES == 3
GRAVITY == 15
ENEMY_WIDTH == 400
ENEMY_HEIGHT == 500
ENEMY_MAX_HEALTH == 20
BOSS_MAX_HEALTH == 200
BULLET_WIDTH == 100
BULLET_HEIGHT == 50
BULLET_SPEED == 100
BULLET_COOLDOWN == 3
CAGE_HEALTH == 30
SPECIAL_ABILITY_COOLDOWN == 300
INVINCIBILITY_DURATION == 180
TURRET_LIFESPAN == 600
TURRET_SHOOT_COOLDOWN == 30
POWERUP_WIDTH == 200
POWERUP_HEIGHT == 200
POWERUP_DURATION == 600

\* The switch turned off.
GodModeOff == FALSE

\* const DEV_MODE_GOD_MODE = true; // Player cannot die
DEV_MODE_GOD_MODE == TRUE

Max(a, b) == IF a >= b THEN a ELSE b
Min(a, b) == IF a <= b THEN a ELSE b
Abs(a) == IF a >= 0 THEN a ELSE -a

\* Math.ceil(n / d) for n >= 0, d > 0.
CeilDiv(n, d) == (n + d - 1) \div d

RECURSIVE SumAmount(_)
\* events.reduce((sum, e) => sum + e.amount, 0)
SumAmount(evs) ==
    IF evs = << >> THEN 0 ELSE Head(evs).amount + SumAmount(Tail(evs))

\* arr.filter(pred), keeping the order.
RECURSIVE SelectIdx(_, _, _)
SelectIdx(s, keep, i) ==
    IF i > Len(s) THEN << >>
    ELSE IF i \in keep THEN << s[i] >> \o SelectIdx(s, keep, i + 1)
    ELSE SelectIdx(s, keep, i + 1)

Range(s) == { s[i] : i \in DOMAIN s }

\* The identifiers of a list of entities.
Ids(list) == { list[i].id : i \in DOMAIN list }

----------------------------------------------------------------------------
(* IEEE-754 doubles.  A number of the program is written as a pair (n, o): *)
(* n tenths of a pixel and o units more, a unit being 2^-FractionBits of a *)
(* tenth.  Every double between 2^-4 and 2^16 px is such a pair, and so is *)
(* the exact sum or difference of two of them.  A double has MantissaBits  *)
(* bits after its leading bit: +, - and * give the double nearest to the   *)
(* exact result, the one with an even last bit when two are equally near.  *)

FractionBits == 56
MantissaBits == 52

Num(n, o) == [n |-> n, o |-> o]

\* A whole number of tenths that is a double: whole and half pixels.
Exact(n) == [n |-> n, o |-> 0]

\* 2^m modulo den.
RECURSIVE Pow2Mod(_, _)
Pow2Mod(m, den) ==
    IF m = 0 THEN 1 % den
    ELSE IF den = Px THEN << 6, 2, 4, 8 >>[(m % 4) + 1]
    ELSE (2 * Pow2Mod(m - 1, den)) % den

\* The whole part of log2(n), n >= 1.
RECURSIVE Log2(_)
Log2(n) == IF n < 2 THEN 0 ELSE 1 + Log2(n \div 2)

\* The exponent e of a / den below 1: 2^e <= a / den < 2^(e + 1).
RECURSIVE Below1(_, _)
Below1(a, den) == IF a >= den THEN 0 ELSE Below1(2 * a, den) - 1

\* The exponent e of a / den > 0: 2^e <= a / den < 2^(e + 1).
Binade(a, den) == IF a >= den THEN Log2(a \div den) ELSE Below1(a, den)

\* a / den is a power of two.
OnPow2(a, den) ==
    IF a >= den THEN a % den = 0 /\ a \div den = 2 ^ Log2(a \div den)
    ELSE a * 2 ^ (-Binade(a, den)) = den

\* The exponent e of a / den + o units, a > 0: for a power of two with
\* o < 0 the value lies in the range of exponents below.
Exponent(a, o, den) ==
    IF OnPow2(a, den) /\ o < 0 THEN Binade(a, den) - 1 ELSE Binade(a, den)

\* What a / den + o units has above the multiple of m units below it, for
\* m = den * 2^j units, which is 2^(j + back - FractionBits).
Above(a, o, den, j, back) ==
    (2 ^ j * ((a * Pow2Mod(back, den)) % den) + o) % (den * 2 ^ j)

\* Round to nearest, ties to even: r is what the value has above the
\* multiple of m units below it, r2 above the multiple of 2 * m units.
TiesToEven(o, m, r, r2) ==
    IF 2 * r > m \/ (2 * r = m /\ r2 >= m) THEN o - r + m ELSE o - r

\* The double nearest to a / den + o units, a > 0, as units above a / den.
\* The doubles of the exponent e are the multiples of 2^(e - MantissaBits),
\* which is den * 2^j units.
NearestIn(a, o, den, e, j) ==
    TiesToEven(o, den * 2 ^ j, Above(a, o, den, j, MantissaBits - e),
               Above(a, o, den, j + 1, MantissaBits - e - 1))

NearestOf(a, o, den, e) == NearestIn(a, o, den, e, FractionBits + e - MantissaBits)

\* The double nearest to v.n / den + v.o units, as a pair with the same n.
Nearest(v, den) ==
    IF v.n = 0 THEN v
    ELSE IF v.n > 0
    THEN Num(v.n, NearestOf(v.n, v.o, den, Exponent(v.n, v.o, den)))
    ELSE Num(v.n, -NearestOf(-v.n, -v.o, den, Exponent(-v.n, -v.o, den)))

\* The double nearest to n tenths of a pixel: what the program holds for
\* the decimal n / 10.
Dbl(n) == Nearest(Num(n, 0), Px)

\* The double nearest to the pair v.  A pair without units is a whole
\* number of tenths the program holds as it is.
Rn(v) == IF v.o = 0 THEN v ELSE Nearest(v, Px)

\* a + b, a - b and -a of the program.
Plus(a, b) == Rn(Num(a.n + b.n, a.o + b.o))
Minus(a, b) == Rn(Num(a.n - b.n, a.o - b.o))
Neg(a) == Num(-a.n, -a.o)

\* a < b of the program.
Less(a, b) == a.n < b.n \/ (a.n = b.n /\ a.o < b.o)

\* Math.abs(a)
AbsD(a) == IF Less(a, Exact(0)) THEN Neg(a) ELSE a

\* t * a for a number t of whole and half pixels, given in tenths (the
\* speeds of the level data and of line 411): the exact product is a pair.
TimesTenths(a, t) == Rn(Num((a.n * t) \div Px, (a.o * t) \div Px))

\* BULLET_SPEED * F for the double F nearest to f hundredths (line 302): F
\* is f hundredths and some units of a hundredth, which BULLET_SPEED takes
\* to f tenths of a pixel and as many units of a tenth.
PelletSpeed(f) == Rn(Num(f, Nearest(Num(f, 0), 100).o))

\* The units of field f of entity e: e.off has the fields of e that are
\* no whole number of tenths.
Off(e, f) ==
    IF "off" \in DOMAIN e /\ f \in DOMAIN e.off THEN e.off[f] ELSE 0

\* Field f of entity e as the program holds it.
D(e, f) == Num(e[f], Off(e, f))

\* { ...e, [f]: v } for a pair v.
Put(e, f, v) ==
    IF v.o = 0 /\ Off(e, f) = 0 THEN [e EXCEPT ![f] = v.n]
    ELSE LET old == IF "off" \in DOMAIN e THEN e.off ELSE << >>
             kept == (DOMAIN old \ {f}) \cup (IF v.o = 0 THEN {} ELSE {f})
             off == [g \in kept |-> IF g = f THEN v.o ELSE old[g]]
             bare == [g \in DOMAIN e \ {"off"} |->
                        IF g = f THEN v.n ELSE e[g]]
         IN  IF kept = {} THEN bare
             ELSE [g \in DOMAIN bare \cup {"off"} |->
                     IF g = "off" THEN off ELSE bare[g]]

\* The place (x, y) of entity e.
Pos(e) == << D(e, "x"), D(e, "y") >>

----------------------------------------------------------------------------
(* Character profiles (GeneratedCharacters).  A profile's weaponType,      *)
(* specialAbility and movementAbility are strings, which the game tests    *)
(* with toLowerCase().includes(keyword).                                   *)

\* The letters String.prototype.toLowerCase changes in a profile's text.
UpperCase == "ABCDEFGHIJKLMNOPQRSTUVWXYZ"
LowerCase == "abcdefghijklmnopqrstuvwxyz"
UpperCaseLetters == { SubSeq(UpperCase, k, k) : k \in 1..Len(UpperCase) }

\* One character of s.toLowerCase().
toLowerChar(c) ==
    IF c \in UpperCaseLetters
    THEN LET k == CHOOSE k \in 1..Len(UpperCase) : SubSeq(UpperCase, k, k) = c
         IN  SubSeq(LowerCase, k, k)
    ELSE c

RECURSIVE toLowerCase(_)
\* s.toLowerCase()
toLowerCase(s) ==
    IF Len(s) = 0 THEN s
    ELSE toLowerChar(SubSeq(s, 1, 1)) \o toLowerCase(SubSeq(s, 2, Len(s)))

\* s.includes(keyword): keyword is a substring of s.
includes(s, keyword) ==
    \E i \in 1..(Len(s) - Len(keyword) + 1) :
        SubSeq(s, i, i + Len(keyword) - 1) = keyword

\* A cast the generator can return: its weapons are a rifle, a shotgun and
\* a grenade launcher, and its abilities name every keyword gameLoop tests.
Heroes ==
    << [id |-> 1, weaponType |-> "Plasma Rifle",
        specialAbility |-> "Temporary Invincibility",
        movementAbility |-> "Double Jump"],
       [id |-> 2, weaponType |-> "Lever-Action Shotgun",
        specialAbility |-> "Dashing Turret", movementAbility |-> "Air Dash"],
       [id |-> 3, weaponType |-> "Grenade Launcher",
        specialAbility |-> "Cluster Grenade",
        movementAbility |-> "Wall Slide"] >>

Villains ==
    << [id |-> 101, weaponType |-> "AK-47", specialAbility |-> "Airstrike",
        movementAbility |-> "Air Dash"] >>

\* The keywords gameLoop looks for, and the texts of the cast, of the
\* grenades of the cluster special (line 352) and of a turret's bullets
\* (line 432).
Keywords ==
    {"shotgun", "grenade", "turret", "invincib", "cluster", "dash", "double"}
CastTexts ==
    UNION { {c.weaponType, c.specialAbility, c.movementAbility} :
              c \in Range(Heroes) \cup Range(Villains) }
    \cup {"Grenade Launcher", "Rifle"}

\* The keywords each text of the cast includes, in any case of its letters.
CastKeywords ==
    [text \in CastTexts |->
        { keyword \in Keywords : includes(toLowerCase(text), keyword) }]

\* text.toLowerCase().includes(keyword); a text of the cast is not
\* searched again.
Has(text, keyword) ==
    IF text \in CastTexts /\ keyword \in Keywords
    THEN keyword \in CastKeywords[text]
    ELSE includes(toLowerCase(text), keyword)

\* weaponType.toLowerCase().includes('grenade')
IsGrenade(weaponType) == Has(weaponType, "grenade")
\* weaponType.toLowerCase().includes('shotgun')
IsShotgun(weaponType) == Has(weaponType, "shotgun")

Difficulties == {"EASY", "NORMAL", "HARD"}
Behaviors == {"chase", "patrol", "stationary"}
PowerUpTypes == {"rapid_fire", "spread_shot", "damage_boost"}
NoPowerUp == "undefined"

\* diffMods of spawnLevel and of the reinforcement spawn, in tenths.
DiffHp(d) == CASE d = "EASY" -> 7 [] d = "NORMAL" -> 10 [] OTHER -> 15
DiffSpeed(d) == CASE d = "EASY" -> 8 [] d = "NORMAL" -> 10 [] OTHER -> 12
DiffCooldown(d) == CASE d = "EASY" -> 15 [] d = "NORMAL" -> 10 [] OTHER -> 7
\* The timer a level starts with taken to be the interval between spawns.
DiffInitialTimerAsRate(d) ==
    CASE d = "EASY" -> 900 [] d = "NORMAL" -> 600 [] OTHER -> 300

\* reinforcementTimer at level start, and diffSettings of the gameLoop.
DiffInitialTimer(d) ==
    CASE d = "EASY" -> 1200 [] d = "NORMAL" -> 600 [] OTHER -> 300
DiffMax(d) == CASE d = "EASY" -> 3 [] d = "NORMAL" -> 6 [] OTHER -> 10
DiffRate(d) == CASE d = "EASY" -> 900 [] d = "NORMAL" -> 600 [] OTHER -> 300

----------------------------------------------------------------------------
(* Level data (../levels, not in src/).  A level has platforms,            *)
(* destructible crates, cages, hostile spawn descriptors (position, size,  *)
(* facing, speed, fire cooldown, major-threat flag) and an optional        *)
(* major-threat descriptor (type LevelData, part_000 lines 176-182).       *)
(* Rectangles are given in Px units.                                       *)

Rect(x, y, w, h) == [x |-> x * Px, y |-> y * Px, width |-> w * Px, height |-> h * Px]

EnemySpawn(x, y, dir, speed, cooldown, boss) ==
    [x |-> x * Px, y |-> y * Px,
     width |-> IF boss THEN 2 * ENEMY_WIDTH ELSE ENEMY_WIDTH,
     height |-> IF boss THEN 2 * ENEMY_HEIGHT ELSE ENEMY_HEIGHT,
     direction |-> dir, moveSpeed |-> speed, shootCooldown |-> cooldown,
     isBoss |-> boss]

BaseLevels ==
    << [platforms |-> << Rect(300, 500, 400, 50) >>,
        destructibleCrates |-> << Rect(520, 460, 30, 40) >>,
        enemies |-> << EnemySpawn(435, 450, "left", 20, 10, FALSE) >>,
        cages |-> << Rect(435, 450, 40, 50) >>,
        boss |-> << >>],
       [platforms |-> << >>,
        destructibleCrates |-> << >>,
        enemies |-> << >>,
        cages |-> << >>,
        boss |-> << EnemySpawn(470, 450, "left", 10, 20, TRUE) >>] >>

\* The same levels with the major threat of the last level in the first
\* level as well.
GuardedLevels ==
    << [BaseLevels[1] EXCEPT !.boss = BaseLevels[2].boss], BaseLevels[2] >>

\* A spawn descriptor of the roster with the major-threat flag set: isBoss
\* is a property of every descriptor of LevelData.enemies.
FlaggedSpawn(x, y, dir, speed, cooldown) ==
    [EnemySpawn(x, y, dir, speed, cooldown, FALSE) EXCEPT !.isBoss = TRUE]

\* The same levels with a flagged descriptor in the roster of the last
\* level, next to its major threat: a hostile on a ledge at the right
\* wall.
FlaggedLevels ==
    << BaseLevels[1],
       [BaseLevels[2] EXCEPT
          !.platforms = << Rect(700, 350, 100, 20) >>,
          !.enemies = << FlaggedSpawn(740, 300, "left", 20, 10) >> ] >>

\* The first level with six ledges above its platform, 60 units apart,
\* that reach from the left wall to the middle of the field, and with its
\* hostile on the floor at the right wall.
StairLevels ==
    << [BaseLevels[1] EXCEPT
          !.platforms =
              @ \o [k \in 1..6 |-> Rect(0, 500 - 60 * k, 500, 10)],
          !.destructibleCrates = << >>,
          !.cages = << >>,
          !.enemies = << EnemySpawn(740, 500, "left", 20, 10, FALSE) >>],
       BaseLevels[2] >>

----------------------------------------------------------------------------
(* GameEntityFactory: every create* takes the identifier nextId() returns. *)

createPlayer(id, hero, lives) ==
    [id |-> id, type |-> "player",
     x |-> GAME_WIDTH \div 2 - PLAYER_WIDTH \div 2,
     y |-> GAME_HEIGHT - PLAYER_HEIGHT - 100 * Px,
     width |-> PLAYER_WIDTH, height |-> PLAYER_HEIGHT,
     hero |-> hero, health |-> PLAYER_MAX_HEALTH,
     maxHealth |-> PLAYER_MAX_HEALTH, direction |-> "right", lives |-> lives,
     specialAbilityCooldown |-> 0, isInvincible |-> FALSE,
     invincibilityTimer |-> 0, damageFlash |-> 0, hasDoubleJumped |-> FALSE,
     isWallSliding |-> FALSE, dashTimer |-> 0, activePowerUp |-> NoPowerUp,
     powerUpTimer |-> 0]

\* { ...a, ...b }: the properties of a and of b, those of b taken where both
\* have one.
Spread(a, b) ==
    [f \in DOMAIN a \cup DOMAIN b |-> IF f \in DOMAIN b THEN b[f] ELSE a[f]]

\* base[f] || other for a number: other if base has no property f or it
\* is 0.
OrElse(base, f, other) ==
    IF f \in DOMAIN base /\ base[f] # 0 THEN base[f] ELSE other

\* createEnemy with ENEMY_MAX_HEALTH as the default of every hostile.
createEnemyWithOneDefault(id, base, villain) ==
    LET maxHealth == OrElse(base, "maxHealth", ENEMY_MAX_HEALTH)
        health == OrElse(base, "health", maxHealth)
    IN  Spread([id |-> id, type |-> "enemy", villain |-> villain,
                health |-> health, maxHealth |-> maxHealth, damageFlash |-> 0,
                aiBehavior |-> IF base.isBoss THEN "boss" ELSE "stationary"],
               base)

\* createEnemy(base, villain), lines 42-55; base is a record with the
\* required properties and any of maxHealth, health, aiBehavior.
createEnemy(id, base, villain) ==
    LET maxHealth ==
            OrElse(base, "maxHealth",
                   IF base.isBoss THEN BOSS_MAX_HEALTH ELSE ENEMY_MAX_HEALTH)
        health == OrElse(base, "health", maxHealth)
    IN  Spread([id |-> id, type |-> "enemy", villain |-> villain,
                health |-> health, maxHealth |-> maxHealth, damageFlash |-> 0,
                aiBehavior |-> IF base.isBoss THEN "boss" ELSE "stationary"],
               base)

createCrate(id, r) ==
    [id |-> id, type |-> "crate", x |-> r.x, y |-> r.y, width |-> r.width,
     height |-> r.height, health |-> 20]

createCage(id, r) ==
    [id |-> id, type |-> "rescue_cage", x |-> r.x, y |-> r.y,
     width |-> r.width, height |-> r.height, health |-> CAGE_HEALTH]

createExplosion(id, x, y, width, height) ==
    [id |-> id, type |-> "explosion", x |-> x, y |-> y, width |-> width,
     height |-> height, life |-> 15]

createBullet(id, x, y, owner, weaponType, vx, vy, damage) ==
    [id |-> id, type |-> "bullet", x |-> x, y |-> y, width |-> BULLET_WIDTH,
     height |-> BULLET_HEIGHT, owner |-> owner, weaponType |-> weaponType,
     vx |-> vx, vy |-> vy, damage |-> damage]

createTurret(id, x, y, direction) ==
    [id |-> id, type |-> "turret", x |-> x, y |-> y, width |-> PLAYER_WIDTH,
     height |-> PLAYER_HEIGHT, life |-> TURRET_LIFESPAN, shootCooldown |-> 0,
     direction |-> direction]

createPowerUp(id, x, y, powerUpType) ==
    [id |-> id, type |-> "power_up", x |-> x, y |-> y,
     width |-> POWERUP_WIDTH, height |-> POWERUP_HEIGHT,
     powerUpType |-> powerUpType]

\* x, y, vx and vy of a projectile are whole units of the model.  The
\* projectiles of the spread (lines 277-292) have velocities that are not:
\* such a projectile keeps x, y, vx and vy rounded down and, in below, the
\* parts of them below one unit, in billionths of a unit.  For as long as
\* it flies its coordinates stay more than a ten-thousandth of a unit off
\* every whole number, so each comparison of the code is decided as the
\* code decides it.
Below(b) ==
    IF "below" \in DOMAIN b THEN b.below
    ELSE [x |-> 0, y |-> 0, vx |-> 0, vy |-> 0]

\* sign * (whole + part / 10^9), rounded down to whole units, and the
\* billionths above that.
Signed(sign, whole, part) ==
    IF sign = 0 THEN [whole |-> 0, part |-> 0]
    ELSE IF sign > 0 \/ part = 0 THEN [whole |-> sign * whole, part |-> part]
    ELSE [whole |-> -whole - 1, part |-> 1000000000 - part]

\* The rectangle of whole units that encloses projectile b: it overlaps a
\* rectangle with whole coordinates exactly when b does.
Cover(b) ==
    [b EXCEPT !.width = @ + (IF Below(b).x > 0 THEN 1 ELSE 0),
              !.height = @ + (IF Below(b).y > 0 THEN 1 ELSE 0)]

\* The entity e, built with the x and y of entity b, at the place of b
\* (createExplosion(bullet.x, bullet.y, ...), createPowerUp(e.x, e.y, ...)).
At(e, b) ==
    LET placed ==
            IF "below" \in DOMAIN b
            THEN Spread(e, [below |-> [x |-> b.below.x, y |-> b.below.y]])
            ELSE e
    IN  Put(Put(placed, "x", D(b, "x")), "y", D(b, "y"))

\* Coordinate f of rectangle e in an overlap test.  When one of the two
\* rectangles encloses a projectile of the spread, the test is decided on
\* whole units: the projectile is more than a ten-thousandth of a unit off
\* every whole number, the other rectangle less than a billionth.
Side(e, f, whole) == IF whole THEN Exact(e[f]) ELSE D(e, f)

\* The overlap test that counts a shared edge or corner as a hit.
checkCollisionClosed(a, b) ==
    LET whole == "below" \in DOMAIN a \/ "below" \in DOMAIN b
        ax == Side(a, "x", whole)
        ay == Side(a, "y", whole)
        bx == Side(b, "x", whole)
        by == Side(b, "y", whole)
    IN  /\ ~Less(Plus(bx, Exact(b.width)), ax)
        /\ ~Less(Plus(ax, Exact(a.width)), bx)
        /\ ~Less(Plus(by, Exact(b.height)), ay)
        /\ ~Less(Plus(ay, Exact(a.height)), by)

\* checkCollision(a, b).  Rectangles at whole tenths are compared as
\* integers, which is the same comparison.
checkCollision(a, b) ==
    IF "off" \in DOMAIN a \/ "off" \in DOMAIN b
    THEN LET whole == "below" \in DOMAIN a \/ "below" \in DOMAIN b
             ax == Side(a, "x", whole)
             ay == Side(a, "y", whole)
             bx == Side(b, "x", whole)
             by == Side(b, "y", whole)
         IN  /\ Less(ax, Plus(bx, Exact(b.width)))
             /\ Less(bx, Plus(ax, Exact(a.width)))
             /\ Less(ay, Plus(by, Exact(b.height)))
             /\ Less(by, Plus(ay, Exact(a.height)))
    ELSE /\ a.x < b.x + b.width
         /\ a.x + a.width > b.x
         /\ a.y < b.y + b.height
         /\ a.y + a.height > b.y

----------------------------------------------------------------------------
(* spawnLevel(lvlIdx) for a level that exists: the entities it builds,     *)
(* with identifiers from id0 on, in the order of the factory calls.        *)
(* behaviors[i] is the behaviour Math.random() gives the i-th hostile.     *)

spawnLevel(lvlIdx, diff, id0, behaviors) ==
    LET levelData == levels[lvlIdx + 1]
        nP == Len(levelData.platforms)
        nD == Len(levelData.destructibleCrates)
        nC == Len(levelData.cages)
        nE == Len(levelData.enemies)
        nB == Len(levelData.boss)
        staticPlatforms ==
            [i \in 1..nP |-> createCrate(id0 + i - 1, levelData.platforms[i])]
        destructible ==
            [i \in 1..nD |->
                createCrate(id0 + nP + i - 1, levelData.destructibleCrates[i])]
        newCages ==
            [i \in 1..nC |-> createCage(id0 + nP + nD + i - 1, levelData.cages[i])]
        newEnemies ==
            [i \in 1..nE |->
                LET e == levelData.enemies[i]
                IN  Put(createEnemy(id0 + nP + nD + nC + i - 1,
                            Spread(e,
                                [maxHealth |->
                                     CeilDiv(ENEMY_MAX_HEALTH * DiffHp(diff), 10),
                                 moveSpeed |->
                                     (e.moveSpeed * DiffSpeed(diff)) \div 10,
                                 shootCooldown |->
                                     (e.shootCooldown * H * DiffCooldown(diff))
                                     \div 10,
                                 aiBehavior |-> behaviors[i]]),
                            Villains[1]),
                        "moveSpeed",
                        TimesTenths(Dbl(DiffSpeed(diff)), e.moveSpeed))]
        bossList ==
            [i \in 1..nB |->
                LET b == levelData.boss[i]
                IN  Put(createEnemy(id0 + nP + nD + nC + nE + i - 1,
                            Spread(b,
                                [maxHealth |->
                                     CeilDiv(BOSS_MAX_HEALTH * DiffHp(diff), 10),
                                 moveSpeed |->
                                     (b.moveSpeed * DiffSpeed(diff)) \div 10,
                                 shootCooldown |->
                                     (b.shootCooldown * H * DiffCooldown(diff))
                                     \div 10,
                                 aiBehavior |-> "boss"]),
                            Villains[1]),
                        "moveSpeed",
                        TimesTenths(Dbl(DiffSpeed(diff)), b.moveSpeed))]
    IN  [crates |-> staticPlatforms \o destructible,
         cages |-> newCages,
         enemies |-> newEnemies \o bossList,
         nextId |-> id0 + nP + nD + nC + nE + nB]

\* The behaviours Math.random() can give the hostiles of level lvlIdx.
BehaviorChoices(lvlIdx, allowed) ==
    [1..Len(levels[lvlIdx + 1].enemies) -> allowed]

----------------------------------------------------------------------------
(* useInput.  keyPress: a keydown of a jump key (w, arrow up) came since   *)
(* the last poll, handleKeyDown armed the buffer (line 28).  padPress: the *)
(* gamepad's button 0 is down at this poll and was up at the last one, the *)
(* poll arms the buffer itself (lines 85-87), after its decrement.         *)

\* poll() without the decrement of line 44.
pollWithoutDecrement(jb, keyPress, padPress) ==
    LET armed == IF keyPress THEN 6 ELSE jb
        buf == IF padPress THEN 6 ELSE armed
    IN  [jumpBuffer |-> buf, jumpCmd |-> buf > 0]

poll(jb, keyPress, padPress) ==
    LET armed == IF keyPress THEN 6 ELSE jb
        decremented == IF armed > 0 THEN armed - 1 ELSE armed
        buf == IF padPress THEN 6 ELSE decremented
    IN  [jumpBuffer |-> buf, jumpCmd |-> buf > 0]

----------------------------------------------------------------------------
(* gameLoop, lines 159-262: timers, movement, physics and jumping.         *)

\* The timers updater with the effect cleared one tick late, when the timer
\* it reads is already 0.
TimersClearingLate(p) ==
    [p EXCEPT !.specialAbilityCooldown = Max(0, p.specialAbilityCooldown - 1),
              !.invincibilityTimer = Max(0, p.invincibilityTimer - 1),
              !.isInvincible = p.invincibilityTimer > 0,
              !.damageFlash = Max(0, p.damageFlash - 1),
              !.dashTimer = Max(0, p.dashTimer - 1),
              !.powerUpTimer = Max(0, p.powerUpTimer - 1),
              !.activePowerUp =
                  IF p.powerUpTimer <= 0 THEN NoPowerUp ELSE p.activePowerUp]

\* The timers updater of setPlayer (lines 163-172).
Timers(p) ==
    [p EXCEPT !.specialAbilityCooldown = Max(0, p.specialAbilityCooldown - 1),
              !.invincibilityTimer = Max(0, p.invincibilityTimer - 1),
              !.isInvincible = p.invincibilityTimer > 0,
              !.damageFlash = Max(0, p.damageFlash - 1),
              !.dashTimer = Max(0, p.dashTimer - 1),
              !.powerUpTimer = Max(0, p.powerUpTimer - 1),
              !.activePowerUp =
                  IF p.powerUpTimer - 1 <= 0 THEN NoPowerUp ELSE p.activePowerUp]

\* The implicit floor appended to crates in allPlatforms (line 192).
FloorPlatform ==
    [id |-> -1, type |-> "crate", x |-> 0, y |-> GAME_HEIGHT - 50 * Px,
     width |-> GAME_WIDTH, height |-> 50 * Px, health |-> 999]

SetMin(S) == CHOOSE m \in S : \A n \in S : m <= n

\* The if / else if chain of lines 236-253 with its first test passing at
\* a counter of 0 as well.
JumpBranchAtExpiry(jumpCmd, coyote, isWallSliding) ==
    IF ~jumpCmd THEN "none"
    ELSE IF coyote >= 0 THEN "ground"
    ELSE IF isWallSliding THEN "wall"
    ELSE IF Has(player.hero.movementAbility, "double")
            /\ ~player.hasDoubleJumped THEN "double"
    ELSE "none"

\* The jump the if / else if chain of lines 236-253 performs; coyote is
\* coyoteTimeCounter.current after lines 160 and 228.
JumpBranch(jumpCmd, coyote, isWallSliding) ==
    IF ~jumpCmd THEN "none"
    ELSE IF coyote > 0 THEN "ground"
    ELSE IF isWallSliding THEN "wall"
    ELSE IF Has(player.hero.movementAbility, "double")
            /\ ~player.hasDoubleJumped THEN "double"
    ELSE "none"

\* Everything lines 179-259 compute from the closure's player, crates,
\* yVelocity and the coyote counter.
Physics(inp, jumpCmd) ==
    LET dashing == player.dashTimer > 0
        dashStep == (PLAYER_SPEED * 25) \div 10
        movedX ==
            IF dashing
            THEN player.x + (IF player.direction = "right" THEN dashStep ELSE -dashStep)
            ELSE player.x - (IF inp.left THEN PLAYER_SPEED ELSE 0)
                          + (IF inp.right THEN PLAYER_SPEED ELSE 0)
        horizontalCollision ==
            \E i \in DOMAIN crates :
                checkCollision([player EXCEPT !.x = movedX], crates[i])
        newX == IF horizontalCollision THEN player.x ELSE movedX
        wallSide ==
            IF ~horizontalCollision \/ movedX = player.x THEN 0
            ELSE IF movedX > player.x THEN 1 ELSE -1
        v1 == (IF dashing THEN 0 ELSE yVelocity) + GRAVITY
        fallY == player.y + v1
        allPlatforms == crates \o << FloorPlatform >>
        landing ==
            { i \in DOMAIN allPlatforms :
                /\ player.x + player.width > allPlatforms[i].x
                /\ player.x < allPlatforms[i].x + allPlatforms[i].width
                /\ player.y + player.height <= allPlatforms[i].y
                /\ fallY + player.height >= allPlatforms[i].y }
        onGround == landing # {}
        newPlayerY ==
            IF onGround THEN allPlatforms[SetMin(landing)].y - player.height
            ELSE fallY
        v2 == IF onGround THEN 0 ELSE v1
        isWallSliding == horizontalCollision /\ ~onGround /\ yVelocity > 0
        v3 == IF isWallSliding THEN Min(v2, 2 * Px) ELSE v2
        coyote1 == IF onGround THEN 5 ELSE Max(0, coyoteTimeCounter - 1)
        jump == JumpBranch(jumpCmd, coyote1, isWallSliding)
        v4 ==
            CASE jump = "ground" -> -PLAYER_JUMP_FORCE
              [] jump = "wall" -> -((PLAYER_JUMP_FORCE * 11) \div 10)
              [] jump = "double" -> -PLAYER_JUMP_FORCE
              [] OTHER -> v3
    IN  [dashing |-> dashing, newX |-> newX, onGround |-> onGround,
         newPlayerY |-> newPlayerY, isWallSliding |-> isWallSliding,
         jump |-> jump, newYVelocity |-> v4, jumpCmd |-> jumpCmd,
         coyoteAtJump |-> coyote1, wallSide |-> wallSide,
         coyote |-> IF jump # "none" THEN 0 ELSE coyote1]

\* The setPlayer updaters of lines 188-261, applied in order to p.
MovePlayer(p, inp, ph) ==
    LET p2 == IF ph.dashing THEN p
              ELSE IF inp.right THEN [p EXCEPT !.direction = "right"]
              ELSE IF inp.left THEN [p EXCEPT !.direction = "left"]
              ELSE p
        p3 == [p2 EXCEPT !.x = Max(0, Min(GAME_WIDTH - PLAYER_WIDTH, ph.newX))]
        p4 == IF ph.onGround
              THEN [p3 EXCEPT !.hasDoubleJumped = FALSE, !.isWallSliding = FALSE]
              ELSE p3
        p5 == [p4 EXCEPT !.isWallSliding = ph.isWallSliding]
        wallJumpDirection == IF player.direction = "right" THEN -1 ELSE 1
        p6 == IF ph.jump = "wall"
              THEN [p5 EXCEPT !.x = p5.x + wallJumpDirection * PLAYER_SPEED,
                              !.direction =
                                  IF wallJumpDirection = 1 THEN "right" ELSE "left"]
              ELSE p5
        p7 == IF ph.jump = "double" THEN [p6 EXCEPT !.hasDoubleJumped = TRUE]
              ELSE p6
        p8 == IF ph.jump # "none" THEN [p7 EXCEPT !.isWallSliding = FALSE] ELSE p7
    IN  [p8 EXCEPT !.y = ph.newPlayerY]

----------------------------------------------------------------------------
(* gameLoop, lines 264-369: shooting, special abilities, dash.             *)

\* bulletCooldown counts quarter ticks, so that cooldown / 2 and
\* cooldown * 2.5 are exact.
Q == 4

\* What Math.random() can give.  The factor 0.8 + Math.random() * 0.4 of
\* one shotgun pellet (line 302) is in [0.8, 1.2]: the sum is rounded, and
\* the greatest draw gives 1.2.  It is counted in hundredths, and a pellet
\* has the double nearest to that many hundredths for its factor.
ShotgunFactors == 80..120

\* The velocity of one cluster grenade (lines 354-355), in tenths of a
\* pixel: vx = (Math.random() - 0.5) * BULLET_SPEED is in [-5, 5) px and
\* vy = -Math.random() * 12 in (-12, 0] px, drawn one after the other
\* (neither product is rounded up to 5 or down to -12).  A grenade has the
\* doubles nearest to these tenths for its velocity.
ClusterVelocities ==
    ((-BULLET_SPEED) \div 2 .. BULLET_SPEED \div 2 - 1) \X (-12 * Px + 1 .. 0)

\* The values of a range of draws that a run takes: both ends of the range
\* and the multiples of stride between them.
Sampled(range, stride) ==
    { x \in range : x % stride = 0 \/ x - 1 \notin range \/ x + 1 \notin range }

\* newBullets after the SHOOTING section, identifiers from id0 on; factor[i]
\* is the factor of pellet i of a shotgun, in hundredths.
PlayerShots(id0, factor) ==
    LET fires == bulletCooldown = 0
        weapon == player.hero.weaponType
        dir == IF player.direction = "right" THEN 1 ELSE -1
        baseY == player.y + player.height \div 2 - BULLET_HEIGHT \div 2
        damage == IF player.activePowerUp = "damage_boost" THEN 40 ELSE 20
        muzzleX ==
            player.x + (IF player.direction = "right" THEN player.width
                        ELSE -BULLET_WIDTH)
        \* Math.cos(rad) * BULLET_SPEED and the magnitude of Math.sin(rad)
        \* * BULLET_SPEED for the angles -15, 0 and 15: 96.592582629, 100
        \* and 96.592582629 units, 25.881904510, 0 and 25.881904510 units,
        \* as whole units and billionths of a unit; and the sign of the
        \* sine.
        cos == << << 96, 592582629 >>, << BULLET_SPEED, 0 >>,
                  << 96, 592582629 >> >>
        sin == << << 25, 881904510 >>, << 0, 0 >>, << 25, 881904510 >> >>
        sign == << -1, 0, 1 >>
    IN  IF player.activePowerUp = "spread_shot"
        THEN [i \in 1..3 |->
                LET vx == Signed(dir, cos[i][1], cos[i][2])
                    vy == Signed(sign[i], sin[i][1], sin[i][2])
                IN  Spread(createBullet(id0 + i - 1, muzzleX, baseY,
                                        "player", weapon, vx.whole,
                                        vy.whole, damage),
                           [below |-> [x |-> 0, y |-> 0, vx |-> vx.part,
                                       vy |-> vy.part]])]
        ELSE IF IsShotgun(weapon)
        THEN [i \in 1..5 |->
                Put(createBullet(id0 + i - 1, muzzleX, baseY, "player",
                        weapon, dir * ((BULLET_SPEED * factor[i]) \div 100),
                        ((i - 3) * 15 * Px) \div 10, damage),
                    "vx",
                    IF dir = 1 THEN PelletSpeed(factor[i])
                    ELSE Neg(PelletSpeed(factor[i])))]
        ELSE IF IsGrenade(weapon)
        THEN << createBullet(id0,
                    player.x + (IF player.direction = "right"
                                THEN player.width \div 2 ELSE 0),
                    baseY, "player", weapon, (dir * BULLET_SPEED * 7) \div 10,
                    -10 * Px, (damage * 3) \div 2) >>
        ELSE << createBullet(id0, muzzleX, baseY, "player", weapon,
                    dir * BULLET_SPEED, 0, damage) >>

\* bulletCooldown after a tick in which no branch of the shooting section
\* stores a cooldown: the decrement of line 162 alone.
NextBulletCooldownUnset(shoots) == Max(0, bulletCooldown - Q)

\* bulletCooldown after the tick (setBulletCooldown calls of lines 162-335).
NextBulletCooldown(shoots) ==
    LET weapon == player.hero.weaponType
        cooldown ==
            IF player.activePowerUp = "rapid_fire"
            THEN (BULLET_COOLDOWN * Q) \div 2 ELSE BULLET_COOLDOWN * Q
        decremented == Max(0, bulletCooldown - Q)
    IN  IF ~shoots THEN decremented
        ELSE IF player.activePowerUp = "spread_shot" THEN decremented
        ELSE IF IsShotgun(weapon) THEN (cooldown * 5) \div 2
        ELSE IF IsGrenade(weapon) THEN cooldown * 3
        ELSE cooldown

\* The eight grenades of the cluster special (lines 347-358); vel[i] is the
\* (vx, vy) the two Math.random() draws of grenade i give.
ClusterBullets(id0, vel) ==
    [i \in 1..8 |->
        Put(Put(createBullet(id0 + i - 1, player.x, player.y, "player",
                    "Grenade Launcher", vel[i][1], vel[i][2], 20),
                "vx", Dbl(vel[i][1])),
            "vy", Dbl(vel[i][2]))]

\* The setPlayer updaters of lines 340-369, applied in order to p.
SpecialPlayer(p, useSpecial, useDash) ==
    LET ability == player.hero.specialAbility
        p1 == IF useSpecial
              THEN [p EXCEPT !.specialAbilityCooldown = SPECIAL_ABILITY_COOLDOWN]
              ELSE p
        p2 == IF useSpecial /\ ~Has(ability, "turret")
                 /\ Has(ability, "invincib")
              THEN [p1 EXCEPT !.invincibilityTimer = INVINCIBILITY_DURATION]
              ELSE p1
        p3 == IF useSpecial /\ Has(ability, "dash")
              THEN [p2 EXCEPT !.dashTimer = 20, !.invincibilityTimer = 20]
              ELSE p2
    IN  IF useDash
        THEN [p3 EXCEPT !.dashTimer = 20, !.invincibilityTimer = 20]
        ELSE p3

----------------------------------------------------------------------------
(* gameLoop, lines 371-549: reinforcements, hostile and turret AI.         *)

\* A reinforcement that takes the flag of the level's strongest hostile.
ReinforcementFlagged(id, spawnSide, behavior) ==
    [Put(createEnemy(id,
         [x |-> IF spawnSide = "left" THEN 10 * Px
                ELSE GAME_WIDTH - ENEMY_WIDTH - 10 * Px,
          y |-> GAME_HEIGHT - 50 * Px - ENEMY_HEIGHT,
          width |-> ENEMY_WIDTH, height |-> ENEMY_HEIGHT,
          direction |-> IF spawnSide = "left" THEN "right" ELSE "left",
          moveSpeed |-> (15 * DiffSpeed(difficulty)) \div 10,
          shootCooldown |-> (60 * H * DiffCooldown(difficulty)) \div 10,
          isBoss |-> TRUE,
          maxHealth |-> CeilDiv(ENEMY_MAX_HEALTH * DiffHp(difficulty), 10),
          aiBehavior |-> behavior],
         Villains[1]),
         "moveSpeed", TimesTenths(Dbl(DiffSpeed(difficulty)), 15))
     EXCEPT !.damageFlash = 10]

\* The hostile a reinforcement spawn creates (lines 388-418).
Reinforcement(id, spawnSide, behavior) ==
    LET e == createEnemy(id,
                [x |-> IF spawnSide = "left" THEN 10 * Px
                       ELSE GAME_WIDTH - ENEMY_WIDTH - 10 * Px,
                 y |-> GAME_HEIGHT - 50 * Px - ENEMY_HEIGHT,
                 width |-> ENEMY_WIDTH, height |-> ENEMY_HEIGHT,
                 direction |-> IF spawnSide = "left" THEN "right" ELSE "left",
                 moveSpeed |-> (15 * DiffSpeed(difficulty)) \div 10,
                 shootCooldown |-> (60 * H * DiffCooldown(difficulty)) \div 10,
                 isBoss |-> FALSE,
                 maxHealth |->
                     CeilDiv(ENEMY_MAX_HEALTH * DiffHp(difficulty), 10),
                 aiBehavior |-> behavior],
                Villains[1])
        speed == TimesTenths(Dbl(DiffSpeed(difficulty)), 15)
    IN  [Put(e, "moveSpeed", speed) EXCEPT !.damageFlash = 10]

\* The test of lines 378-381 without the test of a major threat.
ReinforcementEligibleDespiteMajorThreat(t) ==
    /\ t - levelStartTime > 2000
    /\ Len(enemies) < DiffMax(difficulty)

\* Whether this tick decrements the reinforcement timer (lines 378-381);
\* t is Date.now().
ReinforcementEligible(t) ==
    /\ t - levelStartTime > 2000
    /\ (~(\E i \in DOMAIN enemies : enemies[i].isBoss) \/ difficulty = "HARD")
    /\ Len(enemies) < DiffMax(difficulty)

\* createEnemyBullet with the spread of HARD for turrets as well.
createEnemyBulletSpreadingForAll(shooter, target, id0) ==
    LET dirToPlayer ==
            IF Less(D(shooter, "x"), D(target, "x")) THEN 1 ELSE -1
        ownerType == IF shooter.type = "turret" THEN "turret" ELSE "enemy"
        weaponType ==
            IF shooter.type = "enemy" THEN shooter.villain.weaponType ELSE "Rifle"
        muzzle ==
            Plus(D(shooter, "x"),
                 Exact(IF dirToPlayer = 1 THEN shooter.width ELSE -BULLET_WIDTH))
        bx == muzzle.n
        by == shooter.y + shooter.height \div 2
        vx == (dirToPlayer * BULLET_SPEED * 8) \div 10
        one == << Put(createBullet(id0, bx, by, ownerType, weaponType, vx,
                                   0, 10), "x", muzzle) >>
    IN  IF difficulty = "HARD"
        THEN one \o << Put(createBullet(id0 + 1, bx, by, ownerType,
                                       weaponType, vx, 2 * Px, 10),
                           "x", muzzle),
                       Put(createBullet(id0 + 2, bx, by, ownerType,
                                       weaponType, vx, -2 * Px, 10),
                           "x", muzzle) >>
        ELSE one

\* createEnemyBullet(shooter, target): the bullets it pushes to newBullets.
createEnemyBullet(shooter, target, id0) ==
    LET dirToPlayer ==
            IF Less(D(shooter, "x"), D(target, "x")) THEN 1 ELSE -1
        ownerType == IF shooter.type = "turret" THEN "turret" ELSE "enemy"
        weaponType ==
            IF shooter.type = "enemy" THEN shooter.villain.weaponType ELSE "Rifle"
        muzzle ==
            Plus(D(shooter, "x"),
                 Exact(IF dirToPlayer = 1 THEN shooter.width ELSE -BULLET_WIDTH))
        bx == muzzle.n
        by == shooter.y + shooter.height \div 2
        vx == (dirToPlayer * BULLET_SPEED * 8) \div 10
        one == << Put(createBullet(id0, bx, by, ownerType, weaponType, vx,
                                   0, 10), "x", muzzle) >>
    IN  IF difficulty = "HARD" /\ shooter.type = "enemy"
        THEN one \o << Put(createBullet(id0 + 1, bx, by, ownerType,
                                       weaponType, vx, 2 * Px, 10),
                           "x", muzzle),
                       Put(createBullet(id0 + 2, bx, by, ownerType,
                                       weaponType, vx, -2 * Px, 10),
                           "x", muzzle) >>
        ELSE one

\* The step of a hostile that a rejected move turns around whatever its
\* behaviour.
EnemyStepTurningEveryHostile(enemy, jitter) ==
    LET target == player
        newCooldown == enemy.shootCooldown - H
        ex == D(enemy, "x")
        tx == D(target, "x")
        speed == D(enemy, "moveSpeed")
        distToPlayer == AbsD(Minus(tx, ex))
        yDistToPlayer == Abs(target.y - enemy.y)
        dir == IF Less(ex, tx) THEN 1 ELSE -1
        toPlayer == IF dir = 1 THEN speed ELSE Neg(speed)
        toward == IF dir = 1 THEN "right" ELSE "left"
        chasing ==
            Less(distToPlayer, Exact(400 * Px)) /\ yDistToPlayer < 100 * Px
        wantX ==
            CASE enemy.aiBehavior = "boss" -> Plus(ex, toPlayer)
              [] enemy.aiBehavior = "chase" ->
                    IF chasing THEN Plus(ex, toPlayer) ELSE ex
              [] enemy.aiBehavior = "patrol" ->
                    Plus(ex, IF enemy.direction = "right" THEN speed
                             ELSE Neg(speed))
              [] OTHER -> ex
        shouldShoot ==
            CASE enemy.aiBehavior = "boss" ->
                    /\ Less(distToPlayer, Exact(600 * Px))
                    /\ yDistToPlayer < 250 * Px
              [] enemy.aiBehavior = "chase" ->
                    chasing /\ Less(distToPlayer, Exact(300 * Px))
              [] enemy.aiBehavior = "patrol" ->
                    /\ Less(distToPlayer, Exact(400 * Px))
                    /\ yDistToPlayer < 50 * Px
                    /\ \/ enemy.direction = "right" /\ Less(ex, tx)
                       \/ enemy.direction = "left" /\ Less(tx, ex)
              [] OTHER ->
                    /\ Less(distToPlayer, Exact(500 * Px))
                    /\ yDistToPlayer < 50 * Px
        facing ==
            CASE enemy.aiBehavior = "boss" -> toward
              [] enemy.aiBehavior = "chase" ->
                    IF chasing THEN toward ELSE enemy.direction
              [] enemy.aiBehavior = "patrol" -> enemy.direction
              [] OTHER -> IF shouldShoot THEN toward ELSE enemy.direction
        collided ==
            /\ wantX # ex
            /\ \/ Less(wantX, Exact(0))
               \/ Less(Exact(GAME_WIDTH - enemy.width), wantX)
               \/ \E i \in DOMAIN crates :
                      checkCollision(Put(enemy, "x", wantX), crates[i])
        newDirection ==
            IF collided
            THEN (IF enemy.direction = "right" THEN "left" ELSE "right")
            ELSE facing
        fires == shouldShoot /\ newCooldown <= 0
    IN  [enemy |-> [Put(enemy, "x", IF collided THEN ex ELSE wantX)
                        EXCEPT !.direction = newDirection,
                               !.shootCooldown =
                                   IF fires THEN jitter ELSE newCooldown],
         fires |-> fires]

\* The step of a hostile that, when stationary, walks toward an avatar in
\* its range.
EnemyStepAdvancingToShoot(enemy, jitter) ==
    LET target == player
        newCooldown == enemy.shootCooldown - H
        ex == D(enemy, "x")
        tx == D(target, "x")
        speed == D(enemy, "moveSpeed")
        distToPlayer == AbsD(Minus(tx, ex))
        yDistToPlayer == Abs(target.y - enemy.y)
        dir == IF Less(ex, tx) THEN 1 ELSE -1
        toPlayer == IF dir = 1 THEN speed ELSE Neg(speed)
        toward == IF dir = 1 THEN "right" ELSE "left"
        chasing ==
            Less(distToPlayer, Exact(400 * Px)) /\ yDistToPlayer < 100 * Px
        wantX ==
            CASE enemy.aiBehavior = "boss" -> Plus(ex, toPlayer)
              [] enemy.aiBehavior = "chase" ->
                    IF chasing THEN Plus(ex, toPlayer) ELSE ex
              [] enemy.aiBehavior = "patrol" ->
                    Plus(ex, IF enemy.direction = "right" THEN speed
                             ELSE Neg(speed))
              [] OTHER ->
                    IF /\ Less(distToPlayer, Exact(500 * Px))
                       /\ yDistToPlayer < 50 * Px
                    THEN Plus(ex, toPlayer) ELSE ex
        shouldShoot ==
            CASE enemy.aiBehavior = "boss" ->
                    /\ Less(distToPlayer, Exact(600 * Px))
                    /\ yDistToPlayer < 250 * Px
              [] enemy.aiBehavior = "chase" ->
                    chasing /\ Less(distToPlayer, Exact(300 * Px))
              [] enemy.aiBehavior = "patrol" ->
                    /\ Less(distToPlayer, Exact(400 * Px))
                    /\ yDistToPlayer < 50 * Px
                    /\ \/ enemy.direction = "right" /\ Less(ex, tx)
                       \/ enemy.direction = "left" /\ Less(tx, ex)
              [] OTHER ->
                    /\ Less(distToPlayer, Exact(500 * Px))
                    /\ yDistToPlayer < 50 * Px
        facing ==
            CASE enemy.aiBehavior = "boss" -> toward
              [] enemy.aiBehavior = "chase" ->
                    IF chasing THEN toward ELSE enemy.direction
              [] enemy.aiBehavior = "patrol" -> enemy.direction
              [] OTHER -> IF shouldShoot THEN toward ELSE enemy.direction
        collided ==
            /\ wantX # ex
            /\ \/ Less(wantX, Exact(0))
               \/ Less(Exact(GAME_WIDTH - enemy.width), wantX)
               \/ \E i \in DOMAIN crates :
                      checkCollision(Put(enemy, "x", wantX), crates[i])
        newDirection ==
            IF collided /\ enemy.aiBehavior = "patrol"
            THEN (IF enemy.direction = "right" THEN "left" ELSE "right")
            ELSE facing
        fires == shouldShoot /\ newCooldown <= 0
    IN  [enemy |-> [Put(enemy, "x", IF collided THEN ex ELSE wantX)
                        EXCEPT !.direction = newDirection,
                               !.shootCooldown =
                                   IF fires THEN jitter ELSE newCooldown],
         fires |-> fires]

\* One hostile's step of the AI updater (lines 466-529); jitter is the
\* 90 + Math.random() * 60 of this hostile's shot, in hundredths.
EnemyStep(enemy, jitter) ==
    LET target == player
        newCooldown == enemy.shootCooldown - H
        ex == D(enemy, "x")
        tx == D(target, "x")
        speed == D(enemy, "moveSpeed")
        distToPlayer == AbsD(Minus(tx, ex))
        yDistToPlayer == Abs(target.y - enemy.y)
        dir == IF Less(ex, tx) THEN 1 ELSE -1
        toPlayer == IF dir = 1 THEN speed ELSE Neg(speed)
        toward == IF dir = 1 THEN "right" ELSE "left"
        chasing ==
            Less(distToPlayer, Exact(400 * Px)) /\ yDistToPlayer < 100 * Px
        wantX ==
            CASE enemy.aiBehavior = "boss" -> Plus(ex, toPlayer)
              [] enemy.aiBehavior = "chase" ->
                    IF chasing THEN Plus(ex, toPlayer) ELSE ex
              [] enemy.aiBehavior = "patrol" ->
                    Plus(ex, IF enemy.direction = "right" THEN speed
                             ELSE Neg(speed))
              [] OTHER -> ex
        shouldShoot ==
            CASE enemy.aiBehavior = "boss" ->
                    /\ Less(distToPlayer, Exact(600 * Px))
                    /\ yDistToPlayer < 250 * Px
              [] enemy.aiBehavior = "chase" ->
                    chasing /\ Less(distToPlayer, Exact(300 * Px))
              [] enemy.aiBehavior = "patrol" ->
                    /\ Less(distToPlayer, Exact(400 * Px))
                    /\ yDistToPlayer < 50 * Px
                    /\ \/ enemy.direction = "right" /\ Less(ex, tx)
                       \/ enemy.direction = "left" /\ Less(tx, ex)
              [] OTHER ->
                    /\ Less(distToPlayer, Exact(500 * Px))
                    /\ yDistToPlayer < 50 * Px
        facing ==
            CASE enemy.aiBehavior = "boss" -> toward
              [] enemy.aiBehavior = "chase" ->
                    IF chasing THEN toward ELSE enemy.direction
              [] enemy.aiBehavior = "patrol" -> enemy.direction
              [] OTHER -> IF shouldShoot THEN toward ELSE enemy.direction
        collided ==
            /\ wantX # ex
            /\ \/ Less(wantX, Exact(0))
               \/ Less(Exact(GAME_WIDTH - enemy.width), wantX)
               \/ \E i \in DOMAIN crates :
                      checkCollision(Put(enemy, "x", wantX), crates[i])
        newDirection ==
            IF collided /\ enemy.aiBehavior = "patrol"
            THEN (IF enemy.direction = "right" THEN "left" ELSE "right")
            ELSE facing
        fires == shouldShoot /\ newCooldown <= 0
    IN  [enemy |-> [Put(enemy, "x", IF collided THEN ex ELSE wantX)
                        EXCEPT !.direction = newDirection,
                               !.shootCooldown =
                                   IF fires THEN jitter ELSE newCooldown],
         fires |-> fires]

\* es.map(enemy => ...) of the AI updater, with the bullets its
\* createEnemyBullet calls push, identifiers from id on.  Line 525 draws
\* Math.random() once for each hostile that fires: jitter[k] is the draw of
\* the hostile at place k of es, for every k that fires.
RECURSIVE EnemyAI(_, _, _, _, _)
EnemyAI(es, i, id, jitter, acc) ==
    IF i > Len(es) THEN acc
    ELSE LET r == EnemyStep(es[i],
                            IF i \in DOMAIN jitter THEN jitter[i] ELSE 0)
             shots == IF r.fires THEN createEnemyBullet(es[i], player, id)
                      ELSE << >>
         IN  EnemyAI(es, i + 1, id + Len(shots), jitter,
                     [es |-> Append(acc.es, r.enemy),
                      bullets |-> acc.bullets \o shots])

\* enemies.reduce(...) of the turret updater: the index of the hostile
\* nearest to the turret, the first one on ties.
RECURSIVE NearestEnemy(_, _, _)
NearestEnemy(turret, i, closest) ==
    IF i > Len(enemies) THEN closest
    ELSE NearestEnemy(turret, i + 1,
            IF Less(AbsD(Minus(D(enemies[i], "x"), D(turret, "x"))),
                    AbsD(Minus(D(enemies[closest], "x"), D(turret, "x"))))
            THEN i ELSE closest)

\* The step of a turret that does not age.
TurretStepWithoutAgeing(turret) ==
    LET newCooldown == turret.shootCooldown - 1
        fires ==
            /\ newCooldown <= 0
            /\ Len(enemies) > 0
            /\ Less(AbsD(Minus(D(enemies[NearestEnemy(turret, 1, 1)], "x"),
                               D(turret, "x"))),
                    Exact(500 * Px))
    IN  [turret |-> [turret EXCEPT !.shootCooldown =
                                       IF fires THEN TURRET_SHOOT_COOLDOWN
                                       ELSE newCooldown],
         fires |-> fires]

\* One turret's step of the turret updater (lines 532-547).
TurretStep(turret) ==
    LET newCooldown == turret.shootCooldown - 1
        fires ==
            /\ newCooldown <= 0
            /\ Len(enemies) > 0
            /\ Less(AbsD(Minus(D(enemies[NearestEnemy(turret, 1, 1)], "x"),
                               D(turret, "x"))),
                    Exact(500 * Px))
    IN  [turret |-> [turret EXCEPT !.life = turret.life - 1,
                                   !.shootCooldown =
                                       IF fires THEN TURRET_SHOOT_COOLDOWN
                                       ELSE newCooldown],
         fires |-> fires]

RECURSIVE TurretAI(_, _, _, _)
TurretAI(ts, i, id, acc) ==
    IF i > Len(ts) THEN acc
    ELSE LET r == TurretStep(ts[i])
             shots == IF r.fires
                      THEN createEnemyBullet(ts[i],
                               enemies[NearestEnemy(ts[i], 1, 1)], id)
                      ELSE << >>
         IN  TurretAI(ts, i + 1, id + Len(shots),
                     [ts |-> IF r.turret.life > 0 THEN Append(acc.ts, r.turret)
                             ELSE acc.ts,
                      bullets |-> acc.bullets \o shots])

----------------------------------------------------------------------------
(* gameLoop, lines 551-632: bullet movement and hit detection.             *)

\* bullets.map(...).filter(...) of lines 553-558.
MoveBullet(b) ==
    LET vy == IF IsGrenade(b.weaponType)
              THEN Plus(D(b, "vy"), Exact((GRAVITY * 10) \div 15))
              ELSE D(b, "vy")
        px == Below(b).x + Below(b).vx
        py == Below(b).y + Below(b).vy
    IN  IF "below" \in DOMAIN b
        THEN [b EXCEPT !.x = b.x + b.vx + px \div 1000000000,
                       !.y = b.y + vy.n + py \div 1000000000,
                       !.vy = vy.n,
                       !.below.x = px % 1000000000,
                       !.below.y = py % 1000000000]
        ELSE Put(Put(Put(b, "x", Plus(D(b, "x"), D(b, "vx"))),
                     "y", Plus(D(b, "y"), vy)),
                 "vy", vy)

\* The test of the filter of line 558.
InBounds(b) ==
    /\ \/ Less(Exact(-100 * Px), D(b, "x"))
       \/ b.x = -100 * Px /\ Below(b).x > 0
    /\ Less(D(b, "x"), Exact(GAME_WIDTH + 100 * Px))
    /\ Less(D(b, "y"), Exact(GAME_HEIGHT + 100 * Px))

MovedBullets ==
    LET moved == [i \in DOMAIN bullets |-> MoveBullet(bullets[i])]
    IN  SelectIdx(moved, { i \in DOMAIN moved : InBounds(moved[i]) }, 1)

\* The index of the first element of targets the bullet overlaps, 0 if none
\* (the for ... break loops of lines 584-618).
FirstOverlap(b, targets) ==
    LET hits == { i \in DOMAIN targets :
                    checkCollision(Cover(b), targets[i]) }
    IN  IF hits = {} THEN 0 ELSE SetMin(hits)

\* The avatar branch of the forEach body (lines 573-580).
HitsPlayer(b) ==
    /\ b.owner # "player"
    /\ ~player.isInvincible
    /\ checkCollision(Cover(b), player)
    /\ ~DEV_MODE_GOD_MODE

\* The forEach body with the cage loop placed before the hostile loop.
BulletHitCagesFirst(b) ==
    LET grenade == IsGrenade(b.weaponType)
        e == FirstOverlap(b, enemies)
        c == FirstOverlap(b, crates)
        g == FirstOverlap(b, cages)
        small == IF grenade THEN "none" ELSE "small"
    IN  IF HitsPlayer(b)
        THEN [target |-> "player", id |-> player.id, blast |-> "none"]
        ELSE IF b.owner = "player" /\ g # 0
        THEN [target |-> "cage", id |-> cages[g].id, blast |-> "none"]
        ELSE IF b.owner = "player" /\ e # 0
        THEN [target |-> "enemy", id |-> enemies[e].id, blast |-> small]
        ELSE IF b.owner = "player" /\ c # 0
        THEN [target |-> "crate", id |-> crates[c].id, blast |-> small]
        ELSE IF /\ grenade
                /\ ~Less(D(b, "y"), Exact(GAME_HEIGHT - 50 * Px - b.height))
        THEN [target |-> "floor", id |-> 0, blast |-> "large"]
        ELSE [target |-> "none", id |-> 0, blast |-> "none"]

\* What the forEach body (lines 568-632) does with one moved bullet:
\* target is the category it registers a hit on ("none": it flies on),
\* id the target's identifier, blast the explosion it adds.
BulletHit(b) ==
    LET grenade == IsGrenade(b.weaponType)
        e == FirstOverlap(b, enemies)
        c == FirstOverlap(b, crates)
        g == FirstOverlap(b, cages)
        small == IF grenade THEN "none" ELSE "small"
    IN  IF HitsPlayer(b)
        THEN [target |-> "player", id |-> player.id, blast |-> "none"]
        ELSE IF b.owner = "player" /\ e # 0
        THEN [target |-> "enemy", id |-> enemies[e].id, blast |-> small]
        ELSE IF b.owner = "player" /\ c # 0
        THEN [target |-> "crate", id |-> crates[c].id, blast |-> small]
        ELSE IF b.owner = "player" /\ g # 0
        THEN [target |-> "cage", id |-> cages[g].id, blast |-> "none"]
        ELSE IF /\ grenade
                /\ ~Less(D(b, "y"), Exact(GAME_HEIGHT - 50 * Px - b.height))
        THEN [target |-> "floor", id |-> 0, blast |-> "large"]
        ELSE [target |-> "none", id |-> 0, blast |-> "none"]

\* movedBullets.forEach(...): the damage events (each with the bullet that
\* caused it and the rectangle the bullet had), the explosions pushed to
\* explosionsToAdd, bulletsToRemove.
RECURSIVE Collide(_, _, _, _)
Collide(moved, i, id, acc) ==
    IF i > Len(moved) THEN acc
    ELSE LET b == moved[i]
             h == BulletHit(b)
             ev == IF h.target \in {"player", "enemy", "crate", "cage"}
                   THEN << At([type |-> h.target, id |-> h.id,
                               amount |-> b.damage, bullet |-> b.id,
                               x |-> b.x, y |-> b.y, width |-> b.width,
                               height |-> b.height], b) >>
                   ELSE << >>
             ex == CASE h.blast = "small" ->
                          << At(createExplosion(id, b.x, b.y, 20 * Px,
                                                20 * Px), b) >>
                     [] h.blast = "large" ->
                          << At(createExplosion(id, b.x, b.y, 80 * Px,
                                                80 * Px), b) >>
                     [] OTHER -> << >>
         IN  Collide(moved, i + 1, id + Len(ex),
                     [events |-> acc.events \o ev,
                      explosions |-> acc.explosions \o ex,
                      remove |-> IF h.target = "none" THEN acc.remove
                                 ELSE acc.remove \cup {b.id}])

----------------------------------------------------------------------------
(* gameLoop, lines 634-697: applying the accumulated damage.               *)

\* damageEvents.filter(d => d.type === type && d.id === id), summed.
DamageTo(events, type, id) ==
    SumAmount(SelectIdx(events,
        { i \in DOMAIN events : events[i].type = type /\ events[i].id = id }, 1))

IsHit(events, type, id) ==
    \E i \in DOMAIN events : events[i].type = type /\ events[i].id = id

\* The hostile updater of lines 644-661 on prev.  Lines 655-657 draw
\* Math.random() for each hostile that dies and is no boss: drop[k] is the
\* pickup kind the draws give for the hostile at place k of prev,
\* NoPowerUp for no drop.
RECURSIVE DamageEnemies(_, _, _, _, _, _)
DamageEnemies(prev, events, i, id, drop, acc) ==
    IF i > Len(prev) THEN acc
    ELSE LET e == prev[i]
             hit == IsHit(events, "enemy", e.id)
             remainingHealth == e.health - DamageTo(events, "enemy", e.id)
             died == hit /\ remainingHealth <= 0 /\ e.health > 0
             kind == IF i \in DOMAIN drop THEN drop[i] ELSE NoPowerUp
             drops == died /\ ~e.isBoss /\ kind # NoPowerUp
             ex == IF died
                   THEN << At(createExplosion(id, e.x, e.y,
                                  (e.width * 3) \div 2, (e.height * 3) \div 2),
                              e) >>
                   ELSE << >>
             pu == IF drops
                   THEN << At(createPowerUp(id + 1, e.x, e.y, kind), e) >>
                   ELSE << >>
         IN  DamageEnemies(prev, events, i + 1, id + Len(ex) + Len(pu), drop,
                 [list |-> Append(acc.list,
                              IF hit THEN [e EXCEPT !.health = remainingHealth,
                                                    !.damageFlash = 5]
                              ELSE e),
                  explosions |-> acc.explosions \o ex,
                  powerUps |-> acc.powerUps \o pu,
                  score |-> acc.score
                            + (IF died THEN (IF e.isBoss THEN 5000 ELSE 100) ELSE 0),
                  nextId |-> id + Len(ex) + Len(pu)])

\* The crate updater of lines 665-678 on prev, the filter included.  Lines
\* 672-674 draw Math.random() for each crate that dies: drop[k] is the
\* pickup kind the draws give for the crate at place k of prev.
RECURSIVE DamageCrates(_, _, _, _, _, _)
DamageCrates(prev, events, i, id, drop, acc) ==
    IF i > Len(prev) THEN acc
    ELSE LET c == prev[i]
             hit == IsHit(events, "crate", c.id)
             damage == DamageTo(events, "crate", c.id)
             died == hit /\ c.health - damage <= 0 /\ c.health > 0
             kind == IF i \in DOMAIN drop THEN drop[i] ELSE NoPowerUp
             drops == died /\ kind # NoPowerUp
             ex == IF died
                   THEN << createExplosion(id, c.x + c.width \div 2,
                                           c.y + c.height \div 2, c.width, c.height) >>
                   ELSE << >>
             pu == IF drops THEN << createPowerUp(id + 1, c.x, c.y, kind) >>
                   ELSE << >>
             after == IF hit THEN [c EXCEPT !.health = c.health - damage] ELSE c
         IN  DamageCrates(prev, events, i + 1, id + Len(ex) + Len(pu), drop,
                 [list |-> IF after.health > 0 THEN Append(acc.list, after)
                           ELSE acc.list,
                  explosions |-> acc.explosions \o ex,
                  powerUps |-> acc.powerUps \o pu,
                  nextId |-> id + Len(ex) + Len(pu)])

\* The guard without its c.health > 0 conjunct.
CageRescuedAgain(c, events) ==
    /\ IsHit(events, "cage", c.id)
    /\ c.health - DamageTo(events, "cage", c.id) <= 0

\* The guard of lines 685-689: this cage is rescued by this batch.
CageRescued(c, events) ==
    /\ IsHit(events, "cage", c.id)
    /\ c.health - DamageTo(events, "cage", c.id) <= 0
    /\ c.health > 0

\* The cage updater of lines 681-691 on prev.
DamageCages(prev, events) ==
    [i \in DOMAIN prev |->
        IF IsHit(events, "cage", prev[i].id)
        THEN [prev[i] EXCEPT !.health = prev[i].health
                                        - DamageTo(events, "cage", prev[i].id)]
        ELSE prev[i]]

\* swapHero(): the setPlayer updater of lines 146-153 with nextHero chosen.
SwapHero(p, nextHero) ==
    [p EXCEPT !.hero = nextHero, !.health = p.maxHealth,
              !.specialAbilityCooldown = 0, !.isInvincible = TRUE,
              !.invincibilityTimer = 120]

\* The heroes swapHero can choose (lines 143-144).
NextHeroes ==
    LET availableHeroes ==
            { i \in DOMAIN Heroes : Heroes[i].id # player.hero.id }
    IN  IF availableHeroes # {} THEN { Heroes[i] : i \in availableHeroes }
        ELSE { Heroes[1] }

----------------------------------------------------------------------------
(* One frame: gameLoop (lines 156-754), the render that applies the queued *)
(* updates, and the effects (lines 62-64 and 137-140).                     *)
(*                                                                         *)
(* gameLoop reads the closure's values (the unprimed variables) and queues *)
(* updates.  An updater function passed to a setter has side effects here  *)
(* (it pushes to newBullets, explosionsToAdd and powerUpsToAdd, adds to    *)
(* scoreToAdd, calls the factory, setPlayer and swapHero), so it matters   *)
(* when it runs.  updaterMode = "render": the updaters run when the next   *)
(* render processes the hook queues, in hook order, after gameLoop has     *)
(* returned (React's queueing of updates).  updaterMode = "eager": every   *)
(* updater runs inside its setter call.  A run keeps one mode.             *)

\* Identifiers are given relative to 0 by each section and moved to their
\* place in the order of the nextId() calls.
Shift(list, base) == [i \in DOMAIN list |-> [list[i] EXCEPT !.id = @ + base]]

\* The decay that removes an explosion one call after its life reached 0.
DecayKeepingSpent(ex) ==
    LET aged == [i \in DOMAIN ex |-> [ex[i] EXCEPT !.life = @ - 1]]
    IN  SelectIdx(aged, { i \in DOMAIN aged : aged[i].life >= 0 }, 1)

\* The setExplosions updater of line 707.
Decay(ex) ==
    LET aged == [i \in DOMAIN ex |-> [ex[i] EXCEPT !.life = @ - 1]]
    IN  SelectIdx(aged, { i \in DOMAIN aged : aged[i].life > 0 }, 1)

\* remainingPowerUps of lines 723-735.
RemainingPowerUps ==
    SelectIdx(powerUps,
        { i \in DOMAIN powerUps : ~checkCollision(player, powerUps[i]) }, 1)

\* The setPlayer updaters of lines 727-731, applied in order to p.
RECURSIVE Collect(_, _)
Collect(p, i) ==
    IF i > Len(powerUps) THEN p
    ELSE Collect(IF checkCollision(player, powerUps[i])
                 THEN [p EXCEPT !.activePowerUp = powerUps[i].powerUpType,
                                !.powerUpTimer = POWERUP_DURATION]
                 ELSE p, i + 1)

RECURSIVE Times(_, _, _)
\* n rescues: setPlayer(lives + 1) and swapHero() for each (lines 687-688).
Times(p, n, nextHero) ==
    IF n = 0 THEN p
    ELSE Times(SwapHero([p EXCEPT !.lives = p.lives + 1], nextHero), n - 1, nextHero)

Sides == {"left", "right"}

\* Cooldowns of 60 + Math.random() * 90, in hundredths.
JittersFromSixty == (60 * H) .. (150 * H)

\* The cooldowns 90 + Math.random() * 60 can set (line 525), in hundredths
\* of a call: every value in [90, 150].  The sum is rounded, and the
\* greatest draw gives 150.
Jitters == (90 * H) .. (150 * H)
Drops == {NoPowerUp} \cup PowerUpTypes

\* Whether the updater functions run inside their setter call.
Eager == updaterMode = "eager"

\* inputs.special && player.specialAbilityCooldown === 0 (line 340).
UseSpecial(inp) == inp.special /\ player.specialAbilityCooldown = 0

\* The level complete check without the test of prevEnemiesCount.
LevelCompleteUnlatched(t) ==
    /\ levelStartTime > 0
    /\ t - levelStartTime > 1000
    /\ Len(enemies) = 0
    /\ Len(explosions) = 0

\* The level complete check of line 749; t is Date.now().
LevelComplete(t) ==
    /\ levelStartTime > 0
    /\ t - levelStartTime > 1000
    /\ Len(enemies) = 0
    /\ prevEnemiesCount > 0
    /\ Len(explosions) = 0

\* The branches one gameLoop call takes, decided from the closure's values,
\* the clock t, the physics step ph and the damage events of the call.
Branches(inp, t, ph, events) ==
    [shoots |-> inp.shoot /\ bulletCooldown = 0,
     useSpecial |-> UseSpecial(inp),
     deploys |-> UseSpecial(inp) /\ Has(player.hero.specialAbility, "turret"),
     clusters |-> /\ UseSpecial(inp)
                  /\ ~Has(player.hero.specialAbility, "turret")
                  /\ ~Has(player.hero.specialAbility, "invincib")
                  /\ Has(player.hero.specialAbility, "cluster"),
     useDash |-> /\ inp.dash
                 /\ Has(player.hero.movementAbility, "dash")
                 /\ player.dashTimer <= 0
                 /\ ~ph.onGround,
     eligible |-> ReinforcementEligible(t),
     spawns |-> ReinforcementEligible(t) /\ reinforcementTimer - 1 <= 0,
     rescued |-> Cardinality({ i \in DOMAIN cages :
                                 CageRescued(cages[i], events) }),
     respawns |-> player.health <= 0 /\ player.lives > 0,
     gameOver |-> player.health <= 0 /\ player.lives <= 0,
     advances |-> LevelComplete(t),
     hasLevel |-> LevelComplete(t) /\ levelIndex + 2 <= Len(levels)]

\* The identifiers of a tick's sections when the factory issues its last
\* identifier again.
IdBasesReissuing(n) ==
    LET shoot == idCounter - 1
        turret == IF Eager THEN shoot + n.shoot
                  ELSE shoot + n.shoot + n.cluster + n.reinf + n.hit
                       + n.respawn + n.eb + n.ed + n.cd
        cluster == IF Eager THEN shoot + n.shoot + n.turret
                   ELSE shoot + n.shoot
        reinf == cluster + n.cluster
        hit == IF Eager THEN reinf + n.reinf + n.eb + n.tb
               ELSE reinf + n.reinf
        eb == IF Eager THEN reinf + n.reinf
              ELSE reinf + n.reinf + n.hit + n.respawn
        tb == IF Eager THEN reinf + n.reinf + n.eb ELSE turret + n.turret
        ed == IF Eager THEN hit + n.hit ELSE eb + n.eb
    IN  [shoot |-> shoot, turret |-> turret, cluster |-> cluster,
         reinf |-> reinf, eb |-> eb, tb |-> tb, hit |-> hit, ed |-> ed,
         cd |-> ed + n.ed,
         respawn |-> IF Eager THEN ed + n.ed + n.cd ELSE hit + n.hit,
         total |-> n.shoot + n.turret + n.cluster + n.reinf + n.eb + n.tb
                   + n.hit + n.ed + n.cd + n.respawn]

\* The first identifier each section of the tick gets from nextId(), in the
\* order of the calls: n counts the calls of each section.  With updaters
\* run at the render, the factory calls made inside updaters come after
\* those gameLoop makes itself, in hook order (enemies, crates, turrets).
IdBases(n) ==
    LET shoot == idCounter
        turret == IF Eager THEN shoot + n.shoot
                  ELSE shoot + n.shoot + n.cluster + n.reinf + n.hit
                       + n.respawn + n.eb + n.ed + n.cd
        cluster == IF Eager THEN shoot + n.shoot + n.turret
                   ELSE shoot + n.shoot
        reinf == cluster + n.cluster
        hit == IF Eager THEN reinf + n.reinf + n.eb + n.tb
               ELSE reinf + n.reinf
        eb == IF Eager THEN reinf + n.reinf
              ELSE reinf + n.reinf + n.hit + n.respawn
        tb == IF Eager THEN reinf + n.reinf + n.eb ELSE turret + n.turret
        ed == IF Eager THEN hit + n.hit ELSE eb + n.eb
    IN  [shoot |-> shoot, turret |-> turret, cluster |-> cluster,
         reinf |-> reinf, eb |-> eb, tb |-> tb, hit |-> hit, ed |-> ed,
         cd |-> ed + n.ed,
         respawn |-> IF Eager THEN ed + n.ed + n.cd ELSE hit + n.hit,
         total |-> n.shoot + n.turret + n.cluster + n.reinf + n.eb + n.tb
                   + n.hit + n.ed + n.cd + n.respawn]

\* enemies after the updates of lines 173, 421, 466, 644 (list) and the
\* filter of line 696; the reinforcement, if any, is the element after the
\* closure's hostiles and gets its identifier here.
LiveEnemies(list, bReinf, events) ==
    LET es == [i \in DOMAIN list |->
                 IF i > Len(enemies) THEN [list[i] EXCEPT !.id = @ + bReinf]
                 ELSE list[i]]
    IN  IF \E i \in DOMAIN events : events[i].type = "enemy"
        THEN SelectIdx(es, { i \in DOMAIN list : list[i].health > 0 }, 1)
        ELSE es

\* turrets after the updates of lines 344 and 531; the deployed turret, if
\* any, gets its identifier here.
LiveTurrets(ts, deploys, bTurret) ==
    [i \in DOMAIN ts |->
        IF ts[i].id = 0 /\ deploys THEN [ts[i] EXCEPT !.id = bTurret]
        ELSE ts[i]]

\* The setPlayer updater of line 640.
Hurt(p, events) ==
    IF IsHit(events, "player", player.id)
    THEN [p EXCEPT !.health = @ - DamageTo(events, "player", player.id),
                   !.damageFlash = 5]
    ELSE p

\* The setPlayer updater of line 741 and the swapHero() of line 742.
Respawn(p, respawns, id, nextHero) ==
    IF respawns
    THEN SwapHero(createPlayer(id, p.hero, p.lives - 1), nextHero)
    ELSE p

\* The heal of a completed level without the cap at maxHealth.
HealUncapped(p, advances) ==
    IF advances THEN [p EXCEPT !.health = p.health + 25] ELSE p

\* The setPlayer updater of line 751.
Heal(p, advances) ==
    IF advances THEN [p EXCEPT !.health = Min(p.maxHealth, p.health + 25)]
    ELSE p

\* player after every setPlayer of the tick, in queue order.  The updates
\* a rescue makes from inside the setCages updater come where that updater
\* runs: inside the setCages call, or in the render after all the others.
NextPlayer(inp, ph, f, events, nextHero, bRespawn) ==
    Times(Heal(Respawn(Collect(Times(Hurt(SpecialPlayer(
              MovePlayer(Timers(player), inp, ph), f.useSpecial, f.useDash),
            events),
          IF Eager THEN f.rescued ELSE 0, nextHero), 1),
        f.respawns, bRespawn, nextHero), f.advances),
      IF Eager THEN 0 ELSE f.rescued, nextHero)

\* reinforcementTimer.current after the tick (lines 378-386).
NextReinforcementTimer(f) ==
    IF f.hasLevel THEN DiffInitialTimer(difficulty)
    ELSE IF ~f.eligible THEN reinforcementTimer
    ELSE IF f.spawns THEN DiffRate(difficulty)
    ELSE reinforcementTimer - 1

\* App.handleGameOver(score), App.tsx lines 29-46, called as onGameOver
\* with the score points:
\* setFinalScore(score); with a score above 0 and characterData set the
\* call then waits for saveHighScore, any other call goes on to
\* setGameState(GAME_OVER).  q is what App waits for before the call.
handleGameOver(q, points) ==
    LET saves == points > 0 /\ characterData
    IN  [q EXCEPT !.finalScore = Append(@, points),
                  !.saving = IF saves THEN Append(@, points) ELSE @,
                  !.gameState = IF saves THEN @ ELSE Append(@, "GAME_OVER")]

\* App has state updates queued.
Pending(q) == Len(q.finalScore) + Len(q.gameState) > 0

\* handleGameOver after its await (App.tsx line 45), for the oldest put it
\* waits for.  saveHighScore resolves when the put succeeds and when
\* opening the store fails, which it catches (storageService.ts, lines
\* 176-188): the call goes on to setGameState(GAME_OVER), whatever screen
\* App shows by then.  It rejects when the put fails: the call ends there.
Settled(q, outcome) ==
    [q EXCEPT !.saving = Tail(@),
              !.gameState = IF outcome = "resolved"
                            THEN Append(@, "GAME_OVER") ELSE @]

\* The audioService.playSound cues of the tick that the properties read.
Cues(ph, f, events) ==
    (IF ph.jump # "none" THEN {"jump"} ELSE {})
    \cup (IF f.useDash
             \/ (f.useSpecial /\ Has(player.hero.specialAbility, "dash"))
          THEN {"dash"} ELSE {})
    \cup (IF f.rescued > 0 THEN {"rescue"} ELSE {})
    \cup (IF IsHit(events, "player", player.id) THEN {"hurt"} ELSE {})
    \cup (IF \E i \in DOMAIN powerUps : checkCollision(player, powerUps[i])
          THEN {"powerup"} ELSE {})

Tick(inp, rnd) ==
    \* GameScreen is mounted (App.renderContent), and App, if it has
    \* updates queued, has not rendered for fewer than RenderLag frames
    /\ gameState = "PLAYING"
    /\ characterData
    /\ Pending(appUpdates) => appUpdates.frames < RenderLag
    /\ \E t \in { now + FrameMs },
          in \in { poll(jumpBuffer, inp.jumpPress, inp.padPress) },
          moved \in { MovedBullets } :
       \E ph \in { Physics(inp, in.jumpCmd) },
          hits \in { Collide(moved, 1, 0,
                        [events |-> << >>, explosions |-> << >>,
                         remove |-> {}]) } :
       \E f \in { Branches(inp, t, ph, hits.events) } :
       \* the samples of Math.random() that gameLoop itself draws, the
       \* profile swapHero picks and the behaviours of the hostiles of the
       \* next level; the draws of the updaters follow below, one for each
       \* entity that draws
       \E factor \in (IF /\ f.shoots
                           /\ player.activePowerUp # "spread_shot"
                           /\ IsShotgun(player.hero.weaponType)
                        THEN { fs \in rnd.factors :
                                 \A i \in 1..5 : fs[i] \in ShotgunFactors }
                        ELSE { [i \in 1..5 |-> 100] }),
          vel \in (IF f.clusters
                     THEN { v \in rnd.velocities :
                              \A i \in 1..8 : v[i] \in ClusterVelocities }
                     ELSE { [i \in 1..8 |-> << 0, 0 >>] }),
          spawnSide \in (IF f.spawns THEN rnd.sides ELSE {"left"}),
          behavior \in (IF f.spawns THEN rnd.behaviors ELSE {"chase"}),
          dropC \in [{ k \in DOMAIN crates :
                          /\ IsHit(hits.events, "crate", crates[k].id)
                          /\ crates[k].health > 0
                          /\ crates[k].health
                               - DamageTo(hits.events, "crate",
                                          crates[k].id) <= 0 }
                      -> rnd.drops],
          nextHero \in (IF f.rescued > 0 \/ f.respawns THEN NextHeroes
                        ELSE {player.hero}),
          behaviors \in (IF f.hasLevel
                         THEN BehaviorChoices(levelIndex + 1, rnd.behaviors)
                         ELSE { << >> }) :
       \* what each section creates, identifiers relative to 0
       \E shots \in { IF f.shoots THEN PlayerShots(0, factor) ELSE << >> },
          newTurret \in { IF f.deploys
                          THEN << createTurret(0, player.x, player.y,
                                               player.direction) >>
                          ELSE << >> },
          cluster \in { IF f.clusters THEN ClusterBullets(0, vel)
                        ELSE << >> },
          newEnemy \in { IF f.spawns
                         THEN << Reinforcement(0, spawnSide, behavior) >>
                         ELSE << >> } :
       \E es \in { [i \in DOMAIN enemies |->
                       [enemies[i] EXCEPT
                          !.damageFlash = Max(0, @ - 1)]] \o newEnemy } :
       \E jitter \in [{ k \in DOMAIN es : EnemyStep(es[k], 0).fires }
                       -> { j \in rnd.jitters : j \in Jitters }] :
       \E ai \in { EnemyAI(es, 1, 0, jitter,
                           [es |-> << >>, bullets |-> << >>]) },
          tu \in { TurretAI(turrets \o newTurret, 1, 0,
                            [ts |-> << >>, bullets |-> << >>]) } :
       \E dropE \in [{ k \in DOMAIN ai.es :
                          /\ IsHit(hits.events, "enemy", ai.es[k].id)
                          /\ ~ai.es[k].isBoss
                          /\ ai.es[k].health > 0
                          /\ ai.es[k].health
                               - DamageTo(hits.events, "enemy",
                                          ai.es[k].id) <= 0 }
                      -> rnd.drops] :
       \E ed \in { DamageEnemies(ai.es, hits.events, 1, 0, dropE,
                      [list |-> << >>, explosions |-> << >>,
                       powerUps |-> << >>, score |-> 0, nextId |-> 0]) },
          cd \in { DamageCrates(crates, hits.events, 1, 0, dropC,
                      [list |-> << >>, explosions |-> << >>,
                       powerUps |-> << >>, nextId |-> 0]) } :
       \E b \in { IdBases([shoot |-> Len(shots), turret |-> Len(newTurret),
                           cluster |-> Len(cluster), reinf |-> Len(newEnemy),
                           eb |-> Len(ai.bullets), tb |-> Len(tu.bullets),
                           hit |-> Len(hits.explosions), ed |-> ed.nextId,
                           cd |-> cd.nextId,
                           respawn |-> IF f.respawns THEN 1 ELSE 0]) } :
       \* explosionsToAdd and powerUpsToAdd when their updaters have run,
       \* scoreToAdd when line 699 reads it, and the effect of lines 137-140
       \E explosionsToAdd \in { Shift(hits.explosions, b.hit)
                                \o Shift(ed.explosions, b.ed)
                                \o Shift(cd.explosions, b.cd) },
          powerUpsToAdd \in { Shift(ed.powerUps, b.ed)
                              \o Shift(cd.powerUps, b.cd) },
          scoreToAdd \in { IF Eager THEN ed.score ELSE 0 },
          lvl \in { IF f.hasLevel
                    THEN spawnLevel(levelIndex + 1, difficulty,
                                    idCounter + b.total, behaviors)
                    ELSE [crates |-> cd.list,
                          cages |-> DamageCages(cages, hits.events),
                          enemies |-> LiveEnemies(ed.list, b.reinf,
                                                  hits.events),
                          nextId |-> idCounter + b.total] } :
           /\ player' = NextPlayer(inp, ph, f, hits.events, nextHero,
                                   b.respawn)
           /\ enemies' = lvl.enemies
           /\ crates' = lvl.crates
           /\ cages' = lvl.cages
           \* line 704: newBullets holds what gameLoop itself pushed and
           \* what the AI updaters pushed before the spread was evaluated
           /\ bullets' =
                  IF f.hasLevel THEN << >>
                  ELSE SelectIdx(moved,
                           { i \in DOMAIN moved :
                               moved[i].id \notin hits.remove }, 1)
                       \o Shift(shots, b.shoot) \o Shift(cluster, b.cluster)
                       \o (IF Eager
                           THEN Shift(ai.bullets, b.eb)
                                \o Shift(tu.bullets, b.tb)
                           ELSE << >>)
           /\ turrets' = IF f.hasLevel THEN << >>
                         ELSE LiveTurrets(tu.ts, f.deploys, b.turret)
           \* line 736 is the last setPowerUps of the tick
           /\ powerUps' = IF f.hasLevel THEN << >> ELSE RemainingPowerUps
           \* lines 700 and 707: the append is queued if explosionsToAdd
           \* is not empty when line 700 reads its length
           /\ explosions' =
                  Decay(explosions
                        \o (IF (IF Eager THEN Len(explosionsToAdd) > 0
                                ELSE Len(hits.explosions) > 0)
                            THEN explosionsToAdd ELSE << >>))
           /\ score' = score + scoreToAdd
           /\ scoreRef' = score + scoreToAdd
           /\ levelIndex' = IF f.advances THEN levelIndex + 1 ELSE levelIndex
           /\ bulletCooldown' = NextBulletCooldown(f.shoots)
           /\ yVelocity' = ph.newYVelocity
           /\ coyoteTimeCounter' = ph.coyote
           /\ jumpBuffer' = IF ph.jump # "none" THEN 0 ELSE in.jumpBuffer
           /\ jumpHonoured' = jumpHonoured
                              + (IF ph.jump # "none" THEN 1 ELSE 0)
           /\ lastJump' =
                  [jumpCmd |-> ph.jumpCmd, coyote |-> ph.coyoteAtJump,
                   isWallSliding |-> ph.isWallSliding,
                   wallSide |-> ph.wallSide, branch |-> ph.jump,
                   doubles |-> (IF ph.onGround THEN 0 ELSE lastJump.doubles)
                               + (IF ph.jump = "double" THEN 1 ELSE 0)]
           /\ levelStartTime' = IF f.hasLevel THEN t ELSE levelStartTime
           /\ reinforcementTimer' = NextReinforcementTimer(f)
           /\ prevEnemiesCount' = Len(enemies)
           /\ idCounter' = lvl.nextId
           /\ now' = t
           /\ damageEvents' = hits.events
           /\ dropped' = Ids(powerUpsToAdd)
           /\ swapRequests' = swapRequests + f.rescued
                              + (IF f.respawns THEN 1 ELSE 0)
           /\ gameOverCalls' =
                  gameOverCalls
                  \o (IF f.gameOver THEN << scoreRef >> ELSE << >>)
                  \o (IF f.advances /\ ~f.hasLevel
                      THEN << score + scoreToAdd >> ELSE << >>)
           /\ appUpdates' =
                  LET q1 == IF f.gameOver
                            THEN handleGameOver(appUpdates, scoreRef)
                            ELSE appUpdates
                      q2 == IF f.advances /\ ~f.hasLevel
                            THEN handleGameOver(q1, score + scoreToAdd)
                            ELSE q1
                  IN  [q2 EXCEPT !.frames = IF Pending(appUpdates)
                                            THEN @ + 1 ELSE 0]
           /\ sounds' = Cues(ph, f, hits.events)
           /\ lastShot' =
                  IF f.shoots
                  THEN [weapon |-> player.hero.weaponType,
                        effect |-> player.activePowerUp, since |-> 0]
                  ELSE [lastShot EXCEPT !.since = Min(ShotMemory, @ + 1)]
           /\ frame' = [jumpCmd |-> in.jumpCmd,
                        armed |-> inp.jumpPress \/ inp.padPress,
                        onGround |-> ph.onGround,
                        isWallSliding |-> ph.isWallSliding]
           /\ deployedAt' = IF f.deploys THEN ticks + 1 ELSE deployedAt
           /\ volley' = [enemy |-> Shift(ai.bullets, b.eb),
                         turret |-> Shift(tu.bullets, b.tb)]
           /\ firedAt' =
                  LET firing == { enemies[i].id : i \in
                                    { k \in DOMAIN enemies :
                                        EnemyStep(enemies[k], 0).fires } }
                  IN  [id \in (DOMAIN firedAt \cap Ids(enemies)) \cup firing |->
                          IF id \in firing THEN ticks + 1 ELSE firedAt[id]]
           /\ ticks' = ticks + 1
           /\ UNCHANGED << difficulty, updaterMode, called, retry, levels,
                           gameState, finalScore, characterData, mounts >>

----------------------------------------------------------------------------
(* The state after mount: useState initialisers, then the mount effect's   *)
(* spawnLevel(0).                                                          *)

\* The avatars createPlayer builds at mount, one for each profile.
StartAvatars ==
    { createPlayer(1, Heroes[h], PLAYER_STARTING_LIVES) : h \in DOMAIN Heroes }

\* The entities of list with the identifiers id0, id0 + 1, ...
Numbered(list, id0) ==
    [i \in DOMAIN list |-> [list[i] EXCEPT !.id = id0 + i - 1]]

\* No projectile in flight and no pickup on the field.
NoShots == { [shots |-> << >>, pickups |-> << >>] }

\* The terrain blocks a start has beyond those of the level data above.
Blocks(st) == IF "blocks" \in DOMAIN st THEN st.blocks ELSE << >>

\* No error: an error object without message, code or status (0 stands
\* for an undefined number).
NoError == [message |-> {}, code |-> 0, status |-> 0]

\* The level data of a start, BaseLevels when it names none.
LevelsOf(st) == IF "levels" \in DOMAIN st THEN st.levels ELSE BaseLevels

\* No projectile in flight, no pickup on the field, the level data one of
\* levelSets.
Playing(levelSets) ==
    { [shots |-> << >>, pickups |-> << >>, levels |-> l] : l \in levelSets }

\* What GameScreen has when App mounts it with the hero h and the
\* difficulty d at time t: the values its useState and useRef calls are
\* given (lines 35-60) and what spawnLevel(0) of the mount effect (lines
\* 137-140) stores.  The factory numbers from id0 on; st is the projectile
\* and pickup store of the start, some with terrain blocks of their own.
Mount(h, d, behaviors, st, id0, t) ==
    LET lvl == spawnLevel(0, d, id0 + 1, behaviors)
    IN  [player |-> createPlayer(id0, Heroes[h], PLAYER_STARTING_LIVES),
         enemies |-> lvl.enemies,
         crates |-> lvl.crates
                    \o Numbered(Blocks(st), lvl.nextId + Len(st.shots)
                                             + Len(st.pickups)),
         cages |-> lvl.cages,
         bullets |-> Numbered(st.shots, lvl.nextId),
         powerUps |-> Numbered(st.pickups, lvl.nextId + Len(st.shots)),
         levelStartTime |-> t,
         reinforcementTimer |-> DiffInitialTimer(d),
         idCounter |-> lvl.nextId + Len(st.shots) + Len(st.pickups)
                       + Len(Blocks(st)),
         lastShot |-> [weapon |-> "none", effect |-> NoPowerUp,
                       since |-> ShotMemory],
         frame |-> [jumpCmd |-> FALSE, armed |-> FALSE,
                    onGround |-> FALSE, isWallSliding |-> FALSE],
         lastJump |-> [jumpCmd |-> FALSE, coyote |-> 0,
                       isWallSliding |-> FALSE, wallSide |-> 0,
                       branch |-> "none", doubles |-> 0],
         volley |-> [enemy |-> << >>, turret |-> << >>]]

\* avatars maps the avatar createPlayer builds to the set of the values the
\* avatar may start with; stores is the set of the projectile and pickup
\* stores the run may start with, some with terrain blocks or level data
\* of their own.
InitFrom(heroes, diffs, modes, behaviorsAllowed, avatars, stores) ==
    \E h \in heroes, d \in diffs, m \in modes, st \in stores :
      /\ levels = LevelsOf(st)
      /\ \E behaviors \in BehaviorChoices(0, behaviorsAllowed) :
        LET screen == Mount(h, d, behaviors, st, 1, 1)
        IN  /\ player \in avatars[screen.player]
            /\ enemies = screen.enemies
            /\ crates = screen.crates
            /\ cages = screen.cages
            /\ bullets = screen.bullets
            /\ explosions = << >>
            /\ turrets = << >>
            /\ powerUps = screen.powerUps
            /\ score = 0
            /\ levelIndex = 0
            /\ bulletCooldown = 0
            /\ yVelocity = 0
            /\ coyoteTimeCounter = 0
            /\ levelStartTime = screen.levelStartTime
            /\ reinforcementTimer = screen.reinforcementTimer
            /\ prevEnemiesCount = 0
            /\ scoreRef = 0
            /\ jumpBuffer = 0
            /\ idCounter = screen.idCounter
            /\ now = 1
            /\ difficulty = d
            /\ updaterMode = m
            /\ damageEvents = << >>
            /\ dropped = {}
            /\ swapRequests = 0
            /\ gameOverCalls = << >>
            /\ sounds = {}
            /\ jumpHonoured = 0
            /\ lastShot = screen.lastShot
            /\ frame = screen.frame
            /\ deployedAt = 0
            /\ lastJump = screen.lastJump
            /\ firedAt = << >>
            /\ volley = screen.volley
            /\ called = [op |-> "none"]
            /\ gameState = "PLAYING"
            /\ finalScore = 0
            /\ characterData = TRUE
            /\ appUpdates = [finalScore |-> << >>, gameState |-> << >>,
                             saving |-> << >>, frames |-> 0]
            /\ mounts = 1
            /\ retry = [phase |-> "idle", given |-> 0, retries |-> 0,
                        delay |-> 0, attempts |-> 0, waits |-> << >>,
                        error |-> NoError, outcome |-> "none",
                        thrown |-> NoError]
            /\ ticks = 0

\* The avatar as createPlayer built it.
Fresh == [p \in StartAvatars |-> { p }]

InitWith(heroes, diffs, modes, behaviorsAllowed) ==
    InitFrom(heroes, diffs, modes, behaviorsAllowed, Fresh, NoShots)

Input(left, right, shoot, special, dash, jumpPress, padPress) ==
    [left |-> left, right |-> right, shoot |-> shoot, special |-> special,
     dash |-> dash, jumpPress |-> jumpPress, padPress |-> padPress]

\* The draws of Math.random() a run takes: the behaviour of a new hostile,
\* the side of a reinforcement, the cooldown the shot of one hostile sets,
\* the pickup kind one destruction drops, the factors of the five pellets
\* of a shotgun shot and the velocities of the eight grenades of a cluster.
\* Tick draws a cooldown for each hostile that fires and a pickup kind for
\* each hostile and each crate that is destroyed.  Here every behaviour,
\* side and pickup kind is drawn; a cooldown is 90, 105.5 or 150 calls,
\* a factor 0.8, 0.9, 1.0, 1.1 or 1.2 for each pellet by itself, and a
\* velocity one of three for each grenade by itself.
AllSamples ==
    [behaviors |-> Behaviors, sides |-> Sides,
     jitters |-> Sampled(Jitters, 5275), drops |-> Drops,
     factors |-> [1..5 -> Sampled(ShotgunFactors, 10)],
     velocities |->
         [1..8 -> { << -50, -60 >>, << 25, -30 >>, << 49, -119 >> }]]

\* The samples of the runs in which the avatar fires for many frames: the
\* pellets of a shotgun shot have the factor 1.0 or five different
\* factors, the grenades of a cluster the velocity (0, -6) px or different
\* velocities.
CombatSamples ==
    [AllSamples EXCEPT
       !.factors = { [i \in 1..5 |-> 100], << 80, 90, 100, 110, 120 >> },
       !.velocities =
           { [i \in 1..8 |-> << 0, -60 >>],
             << << -50, 0 >>, << 49, -115 >>, << 0, -60 >>, << 49, -115 >>,
                << -50, 0 >>, << 0, -60 >>, << 0, -60 >>, << -50, 0 >> >> },
       !.jitters = {90 * H, 12050}]

\* The avatar stands and fires.  Fire and special are the keys; a key that
\* gameLoop would ignore in this frame (its cooldown still runs) is up.
CombatInputs ==
    { Input(FALSE, FALSE, s, e, FALSE, FALSE, FALSE) :
        s \in (IF bulletCooldown = 0 THEN BOOLEAN ELSE {FALSE}),
        e \in (IF player.specialAbilityCooldown = 0 THEN BOOLEAN ELSE {FALSE}) }

Init == InitWith(DOMAIN Heroes, {"NORMAL", "HARD"}, {"render", "eager"}, {"stationary"})

Next ==
    ticks < MaxTicks /\ \E inp \in CombatInputs : Tick(inp, CombatSamples)

Spec == Init /\ [][Next]_vars

----------------------------------------------------------------------------
(* App (App.tsx).  A run starts with the first game under way: gameState   *)
(* is PLAYING, characterData is set and GameScreen is mounted.             *)

\* The state of GameScreen, of its hooks, of the factory and of the
\* character service stays as it is.
ScreenUnchanged ==
    UNCHANGED << player, enemies, bullets, cages, crates, explosions,
                 turrets, powerUps, score, levelIndex, bulletCooldown,
                 yVelocity, coyoteTimeCounter, levelStartTime,
                 reinforcementTimer, prevEnemiesCount, scoreRef,
                 jumpBuffer, idCounter, now, difficulty, updaterMode,
                 damageEvents, dropped, swapRequests, gameOverCalls,
                 sounds, jumpHonoured, lastJump, lastShot, frame,
                 deployedAt, firedAt, volley, called, levels, retry,
                 ticks,
                    mounts >>

\* The last value of queue, or value when queue is empty.
Applied(queue, value) ==
    IF Len(queue) > 0 THEN queue[Len(queue)] ELSE value

\* App renders with the state updates queued since its last render.  When
\* gameState is no longer PLAYING, renderContent (lines 58-77) drops
\* GameScreen and the cleanup of useGameLoop cancels the frame request.
AppRender ==
    /\ Pending(appUpdates)
    /\ finalScore' = Applied(appUpdates.finalScore, finalScore)
    /\ gameState' = Applied(appUpdates.gameState, gameState)
    /\ appUpdates' = [appUpdates EXCEPT !.finalScore = << >>,
                                        !.gameState = << >>, !.frames = 0]
    /\ UNCHANGED characterData
    /\ ScreenUnchanged

\* handleRestart (lines 48-52), the click handler of the menu bar's Home
\* item, which is enabled unless gameState is MENU, and of the button of
\* the game over screen.  React renders App at the end of the click, with
\* the updates queued before it and the three of the handler.
handleRestart ==
    /\ gameState # "MENU"
    /\ finalScore' = 0
    /\ characterData' = FALSE
    /\ gameState' = "MENU"
    /\ appUpdates' = [appUpdates EXCEPT !.finalScore = << >>,
                                        !.gameState = << >>, !.frames = 0]
    /\ ScreenUnchanged

\* handleStartGame (lines 23-27), the onStartGame of the menu screen, with
\* a hero of heroes and a difficulty of diffs.  React renders App at the
\* end of the click, with the updates queued before it and the three of
\* the handler, and renderContent (lines 106-108) mounts GameScreen anew:
\* its state and refs and the jump buffer of useInput start over, the
\* static idCounter of the factory goes on from where it is.
handleStartGame(heroes, diffs, behaviorsAllowed) ==
    /\ gameState = "MENU"
    /\ mounts < MaxMounts
    /\ finalScore' = Applied(appUpdates.finalScore, finalScore)
    /\ characterData' = TRUE
    /\ gameState' = "PLAYING"
    /\ appUpdates' = [appUpdates EXCEPT !.finalScore = << >>,
                                        !.gameState = << >>, !.frames = 0]
    /\ mounts' = mounts + 1
    /\ \E h \in heroes, d \in diffs,
          behaviors \in BehaviorChoices(0, behaviorsAllowed) :
        \E screen \in { Mount(h, d, behaviors,
                              [shots |-> << >>, pickups |-> << >>],
                              idCounter, now) } :
            /\ player' = screen.player
            /\ enemies' = screen.enemies
            /\ crates' = screen.crates
            /\ cages' = screen.cages
            /\ bullets' = screen.bullets
            /\ explosions' = << >>
            /\ turrets' = << >>
            /\ powerUps' = screen.powerUps
            /\ score' = 0
            /\ levelIndex' = 0
            /\ bulletCooldown' = 0
            /\ yVelocity' = 0
            /\ coyoteTimeCounter' = 0
            /\ levelStartTime' = screen.levelStartTime
            /\ reinforcementTimer' = screen.reinforcementTimer
            /\ prevEnemiesCount' = 0
            /\ scoreRef' = 0
            /\ jumpBuffer' = 0
            /\ idCounter' = screen.idCounter
            /\ difficulty' = d
            /\ damageEvents' = << >>
            /\ dropped' = {}
            /\ swapRequests' = 0
            /\ gameOverCalls' = << >>
            /\ sounds' = {}
            /\ jumpHonoured' = 0
            /\ lastShot' = screen.lastShot
            /\ frame' = screen.frame
            /\ deployedAt' = 0
            /\ lastJump' = screen.lastJump
            /\ firedAt' = << >>
            /\ volley' = screen.volley
            /\ ticks' = 0
    /\ UNCHANGED << now, updaterMode, called, levels, retry >>

\* GameScreen calls onGameOver(points): handleGameOver up to its await.
onGameOver(points) ==
    /\ gameState = "PLAYING"
    /\ characterData
    /\ Len(gameOverCalls) < MaxCalls
    /\ gameOverCalls' = Append(gameOverCalls, points)
    /\ appUpdates' = handleGameOver(appUpdates, points)
    /\ UNCHANGED << player, enemies, bullets, cages, crates, explosions,
                    turrets, powerUps, score, levelIndex, bulletCooldown,
                    yVelocity, coyoteTimeCounter, levelStartTime,
                    reinforcementTimer, prevEnemiesCount, scoreRef,
                    jumpBuffer, idCounter, now, difficulty, updaterMode,
                    damageEvents, dropped, swapRequests, sounds,
                    jumpHonoured, lastJump, lastShot, frame, deployedAt,
                    firedAt, volley, called, levels, gameState, finalScore,
                    characterData, mounts, retry, ticks >>

\* A put of saveHighScore settles and the handleGameOver call that waits
\* for it goes on.
saveHighScoreSettled ==
    /\ Len(appUpdates.saving) > 0
    /\ \E outcome \in {"resolved", "rejected"} :
          appUpdates' = Settled(appUpdates, outcome)
    /\ UNCHANGED << gameState, finalScore, characterData >>
    /\ ScreenUnchanged

----------------------------------------------------------------------------
(* Runs with movement: the avatar walks right and jumps, from the keyboard *)
(* or from the gamepad.                                                    *)

JumpInputs ==
    { Input(FALSE, r, FALSE, FALSE, FALSE, j = "key", j = "pad") :
        r \in BOOLEAN, j \in {"none", "key", "pad"} }

JumpStep == ticks < JumpTicks /\ \E inp \in JumpInputs : Tick(inp, AllSamples)

JumpSpec ==
    InitWith(DOMAIN Heroes, {"NORMAL"}, {"render", "eager"},
             {"stationary"})
    /\ [][JumpStep]_vars

----------------------------------------------------------------------------
(* Long runs without input: the avatar stands, the level's hostile stays,  *)
(* reinforcements arrive.  Every new hostile is stationary and every shot  *)
(* of a hostile sets the shortest cooldown.                                *)

QuietSamples ==
    [behaviors |-> {"stationary"}, sides |-> Sides, jitters |-> {90 * H},
     drops |-> {NoPowerUp}, factors |-> { [i \in 1..5 |-> 100] },
     velocities |-> { [i \in 1..8 |-> << 0, -60 >>] }]

NoInput == Input(FALSE, FALSE, FALSE, FALSE, FALSE, FALSE, FALSE)

SiegeStep == ticks < SiegeTicks /\ Tick(NoInput, QuietSamples)

SiegeSpec ==
    InitWith({1}, Difficulties, {"render", "eager"}, {"stationary"})
    /\ [][SiegeStep]_vars

----------------------------------------------------------------------------
(* The same runs over level data with and without a major threat in the    *)
(* first level.  The major threat stands from the first frame on; on EASY  *)
(* and NORMAL its presence stops the reinforcements, on HARD they arrive   *)
(* next to it.                                                             *)

StrongholdSpec ==
    InitFrom({1}, Difficulties, {"render", "eager"}, {"stationary"}, Fresh,
             Playing({BaseLevels, GuardedLevels}))
    /\ [][SiegeStep]_vars

----------------------------------------------------------------------------
(* Runs with the fire key held and no other input: the avatar stands where *)
(* the level puts it and shoots as often as its weapon allows.             *)

BarrageStep ==
    ticks < BarrageTicks
    /\ Tick(Input(FALSE, FALSE, TRUE, FALSE, FALSE, FALSE, FALSE),
            QuietSamples)

BarrageSpec ==
    InitWith(DOMAIN Heroes, Difficulties, {"render", "eager"},
             {"stationary"})
    /\ [][BarrageStep]_vars

----------------------------------------------------------------------------
(* Runs with a turret: the hero whose special ability deploys one, the     *)
(* special key down in one of the first calls or in none, no other input.  *)

DeployInputs ==
    { Input(FALSE, FALSE, FALSE, e, FALSE, FALSE, FALSE) :
        e \in (IF ticks < DeployWindow /\ player.specialAbilityCooldown = 0
               THEN BOOLEAN ELSE {FALSE}) }

TurretRun ==
    ticks < TurretTicks /\ \E inp \in DeployInputs : Tick(inp, QuietSamples)

TurretSpec ==
    InitWith({ h \in DOMAIN Heroes : Has(Heroes[h].specialAbility, "turret") },
             Difficulties, {"render", "eager"}, {"stationary"})
    /\ [][TurretRun]_vars

----------------------------------------------------------------------------
(* Runs over the level data with ledges, with a shotgun: the avatar jumps  *)
(* from ledge to ledge to the highest, walks to the left wall, turns and   *)
(* fires once to the right; its pellets fly on with no further input.      *)

\* The avatar stands on the highest platform of the level.
AtSummit ==
    player.y + player.height = SetMin({ crates[i].y : i \in DOMAIN crates })

\* The jump key goes down in a frame that follows one in which the avatar
\* stood below the summit.  At the summit the left key is held until the
\* avatar is within 100 units of the wall, then the right key for one
\* frame, which turns the avatar, then the fire key for one frame.
ClimbInputs ==
    LET ready == AtSummit /\ lastShot.weapon = "none"
        near == player.x <= 100 * Px
        turned == player.direction = "right" /\ player.x < 110 * Px
    IN  { Input(ready /\ ~near /\ ~turned, ready /\ near,
                ready /\ ~near /\ turned, FALSE, FALSE,
                ~AtSummit /\ frame.onGround, FALSE) }

MarginStep ==
    ticks < MarginTicks /\ \E inp \in ClimbInputs : Tick(inp, QuietSamples)

MarginSpec ==
    InitFrom({ h \in DOMAIN Heroes : IsShotgun(Heroes[h].weaponType) },
             {"NORMAL"}, {"render", "eager"}, {"stationary"}, Fresh,
             Playing({StairLevels}))
    /\ [][MarginStep]_vars

----------------------------------------------------------------------------
(* Runs that start with two pickups on the field, as the drops of lines    *)
(* 655 and 671 create them: one where the level's hostile stands and one   *)
(* 40 units to its right, of any two kinds.  (In a run from the mount no   *)
(* pickup enters the store: line 736 overwrites the append of line 701.)   *)
(* The avatar walks right in the first calls; no other input is given.     *)

OnField ==
    { [shots |-> << >>,
       pickups |-> << createPowerUp(0, 435 * Px, 450 * Px, k1),
                      createPowerUp(0, 475 * Px, 450 * Px, k2) >>] :
        k1 \in PowerUpTypes, k2 \in PowerUpTypes }

WalkInputs ==
    { Input(FALSE, ticks < WalkWindow, FALSE, FALSE, FALSE, FALSE, FALSE) }

PickupStep ==
    ticks < PickupTicks /\ \E inp \in WalkInputs : Tick(inp, QuietSamples)

PickupSpec ==
    InitFrom(DOMAIN Heroes, {"NORMAL"}, {"render", "eager"},
             {"stationary"}, Fresh, OnField)
    /\ [][PickupStep]_vars

----------------------------------------------------------------------------
(* Runs through the levels with the grenade launcher: the avatar walks     *)
(* left to the end of the first level's platform, from where its grenades  *)
(* come down on the level's hostile, and then holds the fire key; the      *)
(* special key may be down in the first call.                              *)

\* The avatar has not fired yet and is not yet at the end of the platform,
\* facing right.
Approaching ==
    /\ lastShot.weapon = "none"
    /\ player.x > 300 * Px
    /\ player.direction = "left" \/ player.x > 304 * Px

\* The avatar has not fired yet and is at the end of the platform, facing
\* left.
Turning == lastShot.weapon = "none" /\ player.x <= 300 * Px

CampaignInputs ==
    { Input(Approaching, Turning, ~Approaching /\ ~Turning,
            e, FALSE, FALSE, FALSE) :
        e \in (IF ticks = 0 THEN BOOLEAN ELSE {FALSE}) }

CampaignStep ==
    ticks < CampaignTicks
    /\ \E inp \in CampaignInputs : Tick(inp, QuietSamples)

CampaignSpec ==
    InitWith({ h \in DOMAIN Heroes : IsGrenade(Heroes[h].weaponType) },
             Difficulties, {"render", "eager"}, {"stationary"})
    /\ [][CampaignStep]_vars

----------------------------------------------------------------------------
(* The same runs with App: the loop delivers frames, App renders when it   *)
(* has updates queued, and the player may click Home at any time and start *)
(* another game from the menu, of which the runs have the first frames.    *)

GameOverNext ==
    \/ (mounts = 1 \/ ticks < ReplayTicks) /\ CampaignStep
    \/ AppRender
    \/ handleRestart
    \/ handleStartGame({ h \in DOMAIN Heroes : IsGrenade(Heroes[h].weaponType) },
                       Difficulties, {"stationary"})

GameOverSpec ==
    InitWith({ h \in DOMAIN Heroes : IsGrenade(Heroes[h].weaponType) },
             Difficulties, {"render", "eager"}, {"stationary"})
    /\ [][GameOverNext]_vars

----------------------------------------------------------------------------
(* App by itself: GameScreen calls onGameOver with a score of 0 or of 100, *)
(* the puts of saveHighScore settle, App renders, and the player clicks    *)
(* Home and starts games from the menu.                                    *)

AppNext ==
    \/ \E points \in {0, 100} : onGameOver(points)
    \/ saveHighScoreSettled
    \/ AppRender
    \/ handleRestart
    \/ handleStartGame(DOMAIN Heroes, Difficulties, {"stationary"})

AppSpec ==
    InitWith(DOMAIN Heroes, {"NORMAL"}, {"render", "eager"}, {"stationary"})
    /\ [][AppNext]_vars

----------------------------------------------------------------------------
(* Runs over the platform's edge: the avatar walks left until it is past   *)
(* the platform's left side, and from there on the left, right and jump    *)
(* keys are free while it falls along that side to the floor.              *)

LedgeInputs ==
    IF ticks < WalkOffTicks
    THEN { Input(TRUE, FALSE, FALSE, FALSE, FALSE, FALSE, FALSE) }
    ELSE { Input(l, r, FALSE, FALSE, FALSE, j, FALSE) :
             l \in BOOLEAN, r \in BOOLEAN, j \in BOOLEAN }

LedgeStep ==
    ticks < LedgeTicks /\ \E inp \in LedgeInputs : Tick(inp, QuietSamples)

LedgeSpec ==
    InitWith(DOMAIN Heroes, {"NORMAL"}, {"render", "eager"},
             {"stationary"})
    /\ [][LedgeStep]_vars

----------------------------------------------------------------------------
(* Long runs without input in which the hostiles walk: the level's hostile *)
(* and every reinforcement is a patrol or a chase hostile.                 *)

WalkingSamples ==
    [behaviors |-> {"patrol", "chase"}, sides |-> Sides,
     jitters |-> {90 * H}, drops |-> {NoPowerUp}, factors |-> { [i \in 1..5 |-> 100] },
     velocities |-> { [i \in 1..8 |-> << 0, -60 >>] }]

PatrolStep == ticks < PatrolTicks /\ Tick(NoInput, WalkingSamples)

PatrolSpec ==
    InitWith({1}, {"NORMAL", "HARD"}, {"render", "eager"}, {"patrol",
             "chase"})
    /\ [][PatrolStep]_vars

----------------------------------------------------------------------------
(* Runs without input in which the hostiles, of every behaviour, fire      *)
(* several times, each shot setting any of the sampled cooldowns.          *)

VolleySamples ==
    [behaviors |-> Behaviors, sides |-> Sides,
     jitters |-> Sampled(Jitters, 5275),
     drops |-> {NoPowerUp}, factors |-> { [i \in 1..5 |-> 100] },
     velocities |-> { [i \in 1..8 |-> << 0, -60 >>] }]

VolleyStep == ticks < VolleyTicks /\ Tick(NoInput, VolleySamples)

VolleySpec ==
    InitWith({1}, {"NORMAL", "HARD"}, {"render", "eager"}, Behaviors)
    /\ [][VolleyStep]_vars

----------------------------------------------------------------------------
(* Runs at the world's left edge, on level 1 with one more terrain block:  *)
(* it hangs 42 units from the edge, above the height of the avatar on the  *)
(* floor.  The avatar walks left until it stands at x = 0, and from there  *)
(* on the right and jump keys are free.                                    *)

NearEdge ==
    { [shots |-> << >>, pickups |-> << >>,
       blocks |-> << createCrate(0, Rect(42, 380, 30, 100)) >>] }

EdgeInputs ==
    IF ticks < WalkToEdgeTicks
    THEN { Input(TRUE, FALSE, FALSE, FALSE, FALSE, FALSE, FALSE) }
    ELSE { Input(FALSE, r, FALSE, FALSE, FALSE, j, FALSE) :
             r \in BOOLEAN, j \in BOOLEAN }

EdgeStep ==
    ticks < EdgeTicks /\ \E inp \in EdgeInputs : Tick(inp, QuietSamples)

EdgeSpec ==
    InitFrom(DOMAIN Heroes, {"NORMAL"}, {"render", "eager"}, {"stationary"},
             Fresh, NearEdge)
    /\ [][EdgeStep]_vars

----------------------------------------------------------------------------
(* Runs with dashes, for the profiles whose traits include dash: the       *)
(* special key in the first frame (a dash from the ground), and after it   *)
(* the left, right, jump and dash keys in any frame.                       *)

DashStep ==
    /\ ticks < DashTicks
    /\ \E walk \in {"none", "left", "right"}, j \in BOOLEAN, d \in BOOLEAN,
          e \in (IF ticks = 0 THEN BOOLEAN ELSE {FALSE}) :
           Tick(Input(walk = "left", walk = "right", FALSE, e, d, j, FALSE),
                QuietSamples)

DashSpec ==
    InitWith({ h \in DOMAIN Heroes : Has(Heroes[h].movementAbility, "dash") },
             {"NORMAL"}, {"render", "eager"}, {"stationary"})
    /\ [][DashStep]_vars

----------------------------------------------------------------------------
(* The factory's test script (part_000): calls of createPlayer and of      *)
(* createEnemy, here with any profile, any number of lives from 0 to 3,    *)
(* and a base with or without maxHealth, health and aiBehavior.            *)

TestBases ==
    { Spread([x |-> 0, y |-> 0, width |-> 50 * Px, height |-> 50 * Px,
              direction |-> d, moveSpeed |-> 1 * Px, shootCooldown |-> 10,
              isBoss |-> b], opt) :
        d \in {"left", "right"}, b \in BOOLEAN,
        opt \in { Spread(Spread(m, h), a) :
                    m \in { << >>, [maxHealth |-> 0], [maxHealth |-> 30] },
                    h \in { << >>, [health |-> 7] },
                    a \in { << >>, [aiBehavior |-> "patrol"] } } }

TestCreatePlayer(hero, lives) ==
    /\ idCounter < FactoryIds
    /\ called' = [op |-> "createPlayer", hero |-> hero, lives |-> lives,
                  result |-> createPlayer(idCounter, hero, lives)]
    /\ idCounter' = idCounter + 1
    /\ UNCHANGED << player, enemies, bullets, cages, crates, explosions,
                    turrets, powerUps, score, levelIndex, bulletCooldown,
                    yVelocity, coyoteTimeCounter, levelStartTime,
                    reinforcementTimer, prevEnemiesCount, scoreRef,
                    jumpBuffer, now, difficulty, updaterMode, damageEvents,
                    dropped, swapRequests, gameOverCalls, sounds,
                    jumpHonoured, lastJump, lastShot, frame, deployedAt,
                    firedAt, volley, levels, gameState, finalScore,
                    characterData, appUpdates, retry, ticks,
                    mounts >>

TestCreateEnemy(base, villain) ==
    /\ idCounter < FactoryIds
    /\ called' = [op |-> "createEnemy", base |-> base, villain |-> villain,
                  result |-> createEnemy(idCounter, base, villain)]
    /\ idCounter' = idCounter + 1
    /\ UNCHANGED << player, enemies, bullets, cages, crates, explosions,
                    turrets, powerUps, score, levelIndex, bulletCooldown,
                    yVelocity, coyoteTimeCounter, levelStartTime,
                    reinforcementTimer, prevEnemiesCount, scoreRef,
                    jumpBuffer, now, difficulty, updaterMode, damageEvents,
                    dropped, swapRequests, gameOverCalls, sounds,
                    jumpHonoured, lastJump, lastShot, frame, deployedAt,
                    firedAt, volley, levels, gameState, finalScore,
                    characterData, appUpdates, retry, ticks,
                    mounts >>

\* The entities given to checkCollision: rectangles at whole pixels with
\* sides of 1 or 2 pixels, as terrain blocks or as projectiles.
TestRects ==
    { createCrate(id, [x |-> x * Px, y |-> y * Px, width |-> w * Px,
                       height |-> h * Px]) :
        id \in {1}, x \in 0..2, y \in 0..1, w \in 1..2, h \in 1..2 }
    \cup { [createBullet(2, x * Px, y * Px, "player", "Rifle", Px, 0, 20)
              EXCEPT !.width = Px, !.height = Px] :
             x \in 0..2, y \in 0..1 }

\* A call of checkCollision on any two of them.
TestCheckCollision ==
    /\ \E a \in TestRects, b \in TestRects :
          called' = [op |-> "checkCollision", a |-> a, b |-> b,
                     result |-> checkCollision(a, b)]
    /\ UNCHANGED << player, enemies, bullets, cages, crates, explosions,
                    turrets, powerUps, score, levelIndex, bulletCooldown,
                    yVelocity, coyoteTimeCounter, levelStartTime,
                    reinforcementTimer, prevEnemiesCount, scoreRef,
                    jumpBuffer, idCounter, now, difficulty, updaterMode,
                    damageEvents, dropped, swapRequests, gameOverCalls,
                    sounds, jumpHonoured, lastJump, lastShot, frame,
                    deployedAt, firedAt, volley, levels, gameState, finalScore,
                    characterData, appUpdates, retry, ticks,
                    mounts >>

FactoryInit == InitWith({1}, {"NORMAL"}, {"render"}, {"stationary"})

FactoryNext ==
    \/ \E h \in DOMAIN Heroes, lives \in 0..PLAYER_STARTING_LIVES :
           TestCreatePlayer(Heroes[h], lives)
    \/ \E base \in TestBases : TestCreateEnemy(base, Villains[1])

FactorySpec == FactoryInit /\ [][FactoryNext]_vars

----------------------------------------------------------------------------
(* Vocabulary of the properties.  A property about one tick is an action   *)
(* formula: the unprimed variables are the values the tick starts with,    *)
(* the primed ones the values the next tick starts with.  The overlaps are *)
(* taken from checkCollision on the moved bullets (moved is MovedBullets), *)
(* not from BulletHit.                                                     *)

RECURSIVE SumDamage(_, _)
\* The damage of the bullets of bs at the indexes S, summed.
SumDamage(bs, S) ==
    IF S = {} THEN 0
    ELSE LET i == CHOOSE k \in S : TRUE
         IN  bs[i].damage + SumDamage(bs, S \ {i})

\* The moved bullets that are not the avatar's and overlap the avatar.
OnAvatar(moved) ==
    { k \in DOMAIN moved :
        moved[k].owner # "player" /\ checkCollision(moved[k], player) }

\* The rectangle b overlaps some element of targets.
Touches(b, targets) ==
    \E i \in DOMAIN targets : checkCollision(b, targets[i])

\* The avatar's moved bullets that strike hostile i: it is the first
\* hostile they overlap.
OnEnemy(moved, i) ==
    { k \in DOMAIN moved :
        /\ moved[k].owner = "player"
        /\ checkCollision(moved[k], enemies[i])
        /\ \A j \in 1..(i - 1) : ~checkCollision(moved[k], enemies[j]) }

\* The avatar's moved bullets that strike cage i: they overlap no hostile
\* and no terrain block, and it is the first cage they overlap.
OnCage(moved, i) ==
    { k \in DOMAIN moved :
        /\ moved[k].owner = "player"
        /\ ~Touches(moved[k], enemies)
        /\ ~Touches(moved[k], crates)
        /\ checkCollision(moved[k], cages[i])
        /\ \A j \in 1..(i - 1) : ~checkCollision(moved[k], cages[j]) }

\* The hostiles whose health crosses from > 0 to <= 0 in this tick.
Killed(moved) ==
    { i \in DOMAIN enemies :
        /\ enemies[i].health > 0
        /\ OnEnemy(moved, i) # {}
        /\ enemies[i].health - SumDamage(moved, OnEnemy(moved, i)) <= 0 }

\* The cages whose health crosses from > 0 to <= 0 in this tick.
Opened(moved) ==
    { i \in DOMAIN cages :
        /\ cages[i].health > 0
        /\ OnCage(moved, i) # {}
        /\ cages[i].health - SumDamage(moved, OnCage(moved, i)) <= 0 }

RECURSIVE Bonus(_)
\* 5000 for a major threat, 100 for another hostile, summed over S.
Bonus(S) ==
    IF S = {} THEN 0
    ELSE LET i == CHOOSE k \in S : TRUE
         IN  (IF enemies[i].isBoss THEN 5000 ELSE 100) + Bonus(S \ {i})

----------------------------------------------------------------------------
(* C1 *)

\* C1: when the avatar is not invincible and k >= 1 projectiles that are not
\* its own overlap it in a tick, its health after the tick is its health
\* before minus the sum of their damage, and each of them has left the
\* projectile store.  (Ticks that also replace the avatar's health, by a
\* rescue's profile swap or a level's heal, are left out.)
C1_SameTickDamageAccumulates ==
    [][\A moved \in { MovedBullets } : \A hits \in { OnAvatar(moved) } :
          (/\ ~player.isInvincible
           /\ player.invincibilityTimer = 0
           /\ hits # {}
           /\ swapRequests' = swapRequests
           /\ levelIndex' = levelIndex)
          => /\ player'.health = player.health - SumDamage(moved, hits)
             /\ \A k \in hits : moved[k].id \notin Ids(bullets')]_vars

----------------------------------------------------------------------------
(* C2 *)

\* C2: in one tick every projectile causes at most one damage event; the
\* event's target is of the first category, in the order avatar, hostiles,
\* terrain blocks, cages, in which the projectile has a qualifying overlap,
\* and is an entity of that category the projectile overlaps; and every
\* projectile that caused an event is gone from the store after the tick.
C2_OneTargetPerProjectile ==
    [][\A moved \in { MovedBullets } : \A events \in { damageEvents' } :
       \A i \in DOMAIN events :
          /\ \A j \in DOMAIN events :
                 events[j].bullet = events[i].bullet => j = i
          /\ events[i].bullet \notin Ids(bullets')
          /\ \E k \in DOMAIN moved :
                 /\ moved[k].id = events[i].bullet
                 /\ events[i].amount = moved[k].damage
                 /\ events[i].type = "player" =>
                        /\ moved[k].owner # "player"
                        /\ events[i].id = player.id
                        /\ checkCollision(moved[k], player)
                 /\ events[i].type = "enemy" =>
                        /\ moved[k].owner = "player"
                        /\ \E e \in DOMAIN enemies :
                               /\ enemies[e].id = events[i].id
                               /\ checkCollision(moved[k], enemies[e])
                 /\ events[i].type = "crate" =>
                        /\ moved[k].owner = "player"
                        /\ ~Touches(moved[k], enemies)
                        /\ \E c \in DOMAIN crates :
                               /\ crates[c].id = events[i].id
                               /\ checkCollision(moved[k], crates[c])
                 /\ events[i].type = "cage" =>
                        /\ moved[k].owner = "player"
                        /\ ~Touches(moved[k], enemies)
                        /\ ~Touches(moved[k], crates)
                        /\ \E g \in DOMAIN cages :
                               /\ cages[g].id = events[i].id
                               /\ checkCollision(moved[k], cages[g])]_vars

\* A tick has ended in which a projectile overlapped a hostile and a cage at
\* once and its one damage event went to the hostile.
C2_Witness ==
    \E i \in DOMAIN damageEvents :
        /\ damageEvents[i].type = "enemy"
        /\ Touches(damageEvents[i], cages)
        /\ \A j \in DOMAIN damageEvents :
               damageEvents[j].bullet = damageEvents[i].bullet => j = i
        /\ damageEvents[i].bullet \notin Ids(bullets)

----------------------------------------------------------------------------
(* C3 *)

\* C3: in a tick that begins with the avatar's invincibility timer > 0 no
\* damage event against the avatar is recorded and the avatar's health is
\* not reduced.
C3_NoDamageWhileInvincible ==
    [][player.invincibilityTimer > 0
       => /\ \A i \in DOMAIN damageEvents' : damageEvents'[i].type # "player"
          /\ player'.health >= player.health]_vars

\* The first tick after the special ability granted invincibility has ended
\* (the timer was INVINCIBILITY_DURATION when it began), a projectile that
\* is not the avatar's has moved onto the avatar in it, and the avatar's
\* health is whole.
C3_Witness ==
    /\ player.invincibilityTimer = INVINCIBILITY_DURATION - 1
    /\ \E k \in DOMAIN bullets :
           /\ bullets[k].owner # "player"
           /\ bullets[k].vx # 0
           /\ checkCollision(bullets[k], player)
    /\ \A i \in DOMAIN damageEvents : damageEvents[i].type # "player"
    /\ player.health = player.maxHealth

----------------------------------------------------------------------------
(* C4 *)

\* C4: at the start of every tick no hostile, terrain block or cage in the
\* store has health <= 0.
C4_NoDeadEntityInStore ==
    /\ \A i \in DOMAIN enemies : enemies[i].health > 0
    /\ \A i \in DOMAIN crates : crates[i].health > 0
    /\ \A i \in DOMAIN cages : cages[i].health > 0

----------------------------------------------------------------------------
(* C5 *)

\* C5: after a tick's damage is applied, the health of every entity that
\* remains in the store (avatar, hostiles, terrain blocks, cages) is >= 0.
C5_HealthNeverNegative ==
    /\ player.health >= 0
    /\ \A i \in DOMAIN enemies : enemies[i].health >= 0
    /\ \A i \in DOMAIN crates : crates[i].health >= 0
    /\ \A i \in DOMAIN cages : cages[i].health >= 0

----------------------------------------------------------------------------
(* C6 *)

\* C6: level advance is live.  Every level starts with a hostile, so an
\* empty hostile store says the last hostile was destroyed.  In a tick that
\* begins with no hostile left, every explosion decayed and removed, and
\* more than the start delay (1000 ms) elapsed since the level's start,
\* gameLoop's level check advances: the level index is incremented by one
\* and the avatar's health becomes min(maxHealth, health + 25).
C6_LevelAdvances ==
    [][(/\ Len(enemies) = 0
        /\ Len(explosions) = 0
        /\ levelStartTime > 0
        /\ now + FrameMs - levelStartTime > 1000
        /\ swapRequests' = swapRequests)
       => /\ levelIndex' = levelIndex + 1
          /\ player'.health = Min(player.maxHealth, player.health + 25)]_vars

----------------------------------------------------------------------------
(* C7 *)

\* C7: when a hostile that is no major threat, with health h > 0, is
\* overlapped in a tick by a single avatar projectile of damage >= h, then
\* after the tick the hostile is absent from the store, the score is up by
\* exactly 100, and exactly one explosion was created in the tick, at the
\* hostile's position.
C7_SingleShotKill ==
    [][\A moved \in { MovedBullets } : \A i \in DOMAIN enemies :
       \A hits \in { OnEnemy(moved, i) } :
          (/\ ~enemies[i].isBoss
           /\ enemies[i].health > 0
           /\ Cardinality(hits) = 1
           /\ \A k \in hits : moved[k].damage >= enemies[i].health
           /\ \A j \in DOMAIN enemies \ {i} : OnEnemy(moved, j) = {})
          => /\ enemies[i].id \notin Ids(enemies')
             /\ score' = score + 100
             /\ \E x \in DOMAIN explosions' :
                    /\ explosions'[x].id >= idCounter
                    /\ Pos(explosions'[x]) = Pos(enemies[i])
                    /\ \A y \in DOMAIN explosions' :
                           explosions'[y].id >= idCounter => y = x]_vars

----------------------------------------------------------------------------
(* C8 *)

\* C8: the score never decreases, and in every tick it grows by exactly the
\* bonuses of the hostiles whose health crosses from > 0 to <= 0 in that
\* tick, 5000 for a major threat and 100 for another hostile, each counted
\* once however many lethal projectiles hit it; so it changes only in a
\* tick with such a hostile.
C8_ScoreCountsKills ==
    [][\A moved \in { MovedBullets } :
          /\ score' >= score
          /\ score' = score + Bonus(Killed(moved))]_vars

----------------------------------------------------------------------------
(* C9 *)

\* C9: in every tick the avatar's lives grow by exactly the number of cages
\* whose health crosses from > 0 to <= 0 in that tick, and exactly as many
\* profile swaps are requested; so a tick without such a cage, also one in
\* which a projectile strikes a cage already at health <= 0, grants no life
\* and requests no swap.
C9_RescueOncePerCage ==
    [][\A moved \in { MovedBullets } : \A n \in { Cardinality(Opened(moved)) } :
          /\ player'.lives = player.lives + n
          /\ swapRequests' = swapRequests + n]_vars

\* A tick has ended in which a projectile struck a cage that was at
\* health <= 0 before it, after the cage's rescue had granted its one life
\* and its one swap.
C9_Witness ==
    /\ \E i \in DOMAIN cages :
           /\ IsHit(damageEvents, "cage", cages[i].id)
           /\ cages[i].health
                + DamageTo(damageEvents, "cage", cages[i].id) <= 0
    /\ Len(cages) = 1
    /\ levelIndex = 0
    /\ player.lives = PLAYER_STARTING_LIVES + 1
    /\ swapRequests = 1

----------------------------------------------------------------------------
(* C10 *)

\* C10: a pickup created in a tick by the destruction of a hostile or of a
\* destructible terrain block is in the pickup store when the next tick
\* starts.
C10_DroppedPickupIsStored ==
    \A id \in dropped : id \in Ids(powerUps)

----------------------------------------------------------------------------
(* C12 *)

\* Twice the normal cooldown of a weapon in ticks: BULLET_COOLDOWN for the
\* default weapon, 2.5 times that for a shotgun, 3 times that for a
\* grenade weapon.
TwiceCooldown(weaponType) ==
    IF IsShotgun(weaponType) THEN 5 * BULLET_COOLDOWN
    ELSE IF IsGrenade(weaponType) THEN 6 * BULLET_COOLDOWN
    ELSE 2 * BULLET_COOLDOWN

\* C12: fire is held in every tick.  After a shot of a weapon whose normal
\* cooldown is a whole number N of ticks, the next shot is fired in the
\* N-th tick after it when no effect was active at the shot, and in the
\* ceil(N/2)-th tick after it when rapid-fire was: a tick fires if and only
\* if it is that tick.
C12_NextShotAfterCooldown ==
    [][(/\ lastShot.weapon # "none"
        /\ lastShot.since < ShotMemory
        /\ TwiceCooldown(lastShot.weapon) % 2 = 0
        /\ lastShot.effect \in {NoPowerUp, "rapid_fire"})
       => (lastShot'.since = 0
           <=> lastShot.since + 1 =
                  (IF lastShot.effect = "rapid_fire"
                   THEN CeilDiv(TwiceCooldown(lastShot.weapon), 4)
                   ELSE TwiceCooldown(lastShot.weapon) \div 2))]_vars

----------------------------------------------------------------------------
(* C13 *)

\* C13: in a tick in which the poll reports the jump command, the coyote
\* counter is 0 after its decrement, the avatar does not land and does not
\* slide on a wall, and its movement trait has no double jump, no jump
\* occurs: the vertical velocity is the one gravity gives (from the old
\* velocity, or from 0 during a dash), the jump buffer is not cleared, no
\* jump is counted and no jump cue is emitted.
C13_NoJumpAtCoyoteExpiry ==
    [][(/\ frame'.jumpCmd
        /\ Max(0, coyoteTimeCounter - 1) = 0
        /\ ~frame'.onGround
        /\ ~frame'.isWallSliding
        /\ ~Has(player.hero.movementAbility, "double"))
       => /\ yVelocity' \in {yVelocity + GRAVITY, GRAVITY}
          /\ jumpBuffer' > 0
          /\ jumpHonoured' = jumpHonoured
          /\ "jump" \notin sounds']_vars

\* Such a tick has ended: the command was reported to an airborne avatar
\* without the double jump whose coyote counter had run out, after an
\* earlier jump, and the buffer is still armed.
C13_Witness ==
    /\ frame.jumpCmd
    /\ ~frame.onGround
    /\ ~frame.isWallSliding
    /\ ~Has(player.hero.movementAbility, "double")
    /\ coyoteTimeCounter = 0
    /\ jumpHonoured = 1
    /\ jumpBuffer > 0
    /\ yVelocity > -PLAYER_JUMP_FORCE
    /\ "jump" \notin sounds

----------------------------------------------------------------------------
(* C14 *)

\* C14: a jump happens only in a tick whose poll reports the jump command,
\* and the poll reports it only if the buffer was armed for this poll or
\* an earlier arming is still counting (the buffer is above 1 before the
\* decrement); the tick that jumps gives one impulse, emits the jump cue
\* and clears the buffer, so the same arming is not reported again; and a
\* poll without a new arming leaves the buffer, never above 6, lower by one
\* or at 0, so an arming that is never honoured is reported for a bounded
\* number of polls.  The impulse is read off the vertical velocity, which
\* gravity, landing and a dash never send upwards.
C14_OneJumpPerPress ==
    [][/\ jumpHonoured' # jumpHonoured
          <=> (yVelocity' < 0 /\ yVelocity' < yVelocity + GRAVITY)
       /\ jumpHonoured' # jumpHonoured
          => /\ jumpHonoured' = jumpHonoured + 1
             /\ frame'.jumpCmd
             /\ jumpBuffer' = 0
       /\ "jump" \in sounds' <=> jumpHonoured' # jumpHonoured
       /\ frame'.jumpCmd => (frame'.armed \/ jumpBuffer > 1)
       /\ ~frame'.armed => jumpBuffer' <= Max(0, jumpBuffer - 1)
       /\ jumpBuffer' <= 6]_vars

\* After one arming and the jump that honoured it, a later poll without a
\* new arming has reported no jump command: the avatar is in the air, one
\* jump is counted, the buffer is empty.
C14_Witness ==
    /\ jumpHonoured = 1
    /\ ~frame.armed
    /\ ~frame.jumpCmd
    /\ ~frame.onGround
    /\ jumpBuffer = 0
    /\ yVelocity < 0
    /\ "jump" \notin sounds

----------------------------------------------------------------------------
(* C15 *)

\* The cap on the hostile count, the interval between two reinforcements
\* and the timer a level starts with, per difficulty.
Cap(d) == CASE d = "EASY" -> 3 [] d = "NORMAL" -> 6 [] d = "HARD" -> 10
Interval(d) == CASE d = "EASY" -> 900 [] d = "NORMAL" -> 600 [] d = "HARD" -> 300
FirstInterval(d) ==
    CASE d = "EASY" -> 1200 [] d = "NORMAL" -> 600 [] d = "HARD" -> 300

\* The hostiles of the store after the tick that were created in it, in a
\* tick that stays in its level: the reinforcements of the tick.
Reinforcements ==
    IF levelIndex' # levelIndex THEN {}
    ELSE { i \in DOMAIN enemies' : enemies'[i].id >= idCounter }

\* C15: a tick that stays in its level changes the reinforcement timer or
\* adds a hostile only if, at its start, more than the grace period (2000
\* ms) has passed since the level's start, the hostile count is below the
\* cap of the difficulty, and no major threat is present or the difficulty
\* is HARD; it adds at most one hostile, and the count after it is at most
\* the cap.
C15_ReinforcementsOnlyWhenEligible ==
    [][levelIndex' = levelIndex
       => /\ (reinforcementTimer' # reinforcementTimer \/ Reinforcements # {})
             => /\ now' - levelStartTime > 2000
                /\ Len(enemies) < Cap(difficulty)
                /\ \/ \A i \in DOMAIN enemies : ~enemies[i].isBoss
                   \/ difficulty = "HARD"
          /\ Cardinality(Reinforcements) <= 1
          /\ Reinforcements # {} => Len(enemies') <= Cap(difficulty)]_vars

\* A major threat has held the reinforcements off: on NORMAL, with the
\* flagged hostile in the store, the count below the cap and the timer
\* still at the value the level start gave it, after as many ticks past
\* the grace period as would have brought the first reinforcement.
C15_Witness ==
    /\ difficulty = "NORMAL"
    /\ \E i \in DOMAIN enemies : enemies[i].isBoss
    /\ Len(enemies) < Cap("NORMAL")
    /\ reinforcementTimer = FirstInterval("NORMAL")
    /\ now - levelStartTime > 2000 + FirstInterval("NORMAL") * FrameMs

----------------------------------------------------------------------------
(* C16 *)

\* The ticks of the run so far that began after the grace period: the run
\* stays in its first level, tick k begins FrameMs * k ms after its start.
EligibleTicks == Max(0, ticks - 2000 \div FrameMs)

\* The reinforcements due after e eligible ticks: the first after
\* FirstInterval(d) of them, one more after every further Interval(d).
Due(d, e) ==
    IF e < FirstInterval(d) THEN 0
    ELSE 1 + (e - FirstInterval(d)) \div Interval(d)

\* C16: in a run without input (no hostile is destroyed, no major threat
\* appears), while the hostile count is below the cap, the number of
\* reinforcements spawned so far is the number due after the eligible ticks
\* so far, which for every number of ticks is on EASY at most that on
\* NORMAL and on NORMAL at most that on HARD; and the tick that spawns one
\* leaves the timer at the interval of the difficulty.
C16_ReinforcementSchedule ==
    /\ [](/\ Len(enemies) < Cap(difficulty)
              => Len(enemies) - 1 = Due(difficulty, EligibleTicks)
          /\ Due("EASY", EligibleTicks) <= Due("NORMAL", EligibleTicks)
          /\ Due("NORMAL", EligibleTicks) <= Due("HARD", EligibleTicks))
    /\ [][Reinforcements # {}
           => reinforcementTimer' = Interval(difficulty)]_vars

\* On EASY the first reinforcement has arrived, on the tick the schedule
\* gives: 1200 eligible ticks into the level.
C16_Witness ==
    /\ difficulty = "EASY"
    /\ EligibleTicks = FirstInterval("EASY")
    /\ Len(enemies) = 2
    /\ reinforcementTimer = Interval("EASY")

----------------------------------------------------------------------------
(* C18 *)

\* The rectangle r of the level data is the rectangle of a block in the
\* store.
Stands(r) ==
    \E i \in DOMAIN crates :
        /\ crates[i].x = r.x
        /\ crates[i].y = r.y
        /\ crates[i].width = r.width
        /\ crates[i].height = r.height

\* C18: while a level is played, every block built from its static
\* platform list is in the terrain store, whatever has hit it.
C18_PlatformsStand ==
    levelIndex < Len(levels)
    => \A k \in DOMAIN levels[levelIndex + 1].platforms :
           Stands(levels[levelIndex + 1].platforms[k])

----------------------------------------------------------------------------
(* C19 *)

\* C19: a turret's projectile that overlaps a hostile after its move causes
\* a damage event against a hostile it overlaps and leaves the projectile
\* store in that tick; and no damage event of a turret's projectile is
\* against the avatar.
C19_TurretShotsStrikeHostiles ==
    [][\A moved \in { MovedBullets } : \A events \in { damageEvents' } :
       \A k \in DOMAIN moved :
          moved[k].owner = "turret"
          => /\ Touches(moved[k], enemies)
                => /\ \E i \in DOMAIN events :
                          /\ events[i].bullet = moved[k].id
                          /\ events[i].type = "enemy"
                          /\ \E e \in DOMAIN enemies :
                                 /\ enemies[e].id = events[i].id
                                 /\ checkCollision(moved[k], enemies[e])
                   /\ moved[k].id \notin Ids(bullets')
             /\ \A i \in DOMAIN events :
                    events[i].bullet = moved[k].id
                    => events[i].type # "player"]_vars

----------------------------------------------------------------------------
(* C20 *)

\* In a tick that keeps the level, a turret with more than one tick of life
\* left is in the store after the tick with one less, and a turret with one
\* tick left is not.
TurretsAge ==
    levelIndex' = levelIndex
    => \A i \in DOMAIN turrets :
           IF turrets[i].life > 1
           THEN \E j \in DOMAIN turrets' :
                    /\ turrets'[j].id = turrets[i].id
                    /\ turrets'[j].life = turrets[i].life - 1
           ELSE turrets[i].id \notin Ids(turrets')

\* The tick is gameLoop call number n, keeps the level and takes the last
\* turret out of the store.
LastTurretExpiresInCall(n) ==
    /\ levelIndex' = levelIndex
    /\ turrets # << >>
    /\ turrets' = << >>
    /\ ticks' = n

\* C20 as stated: no turret is in the store with life <= 0, the life of a
\* turret goes down by one in every tick until the tick that takes it to 0
\* removes the turret, and that tick is the TURRET_LIFESPAN-th after the
\* one that deployed it.
C20_ExpiresLifespanTicksAfterDeployment ==
    /\ [](\A i \in DOMAIN turrets : turrets[i].life > 0)
    /\ [][/\ TurretsAge
          /\ \A n \in 1..TurretTicks :
                 LastTurretExpiresInCall(n)
                 => n = deployedAt + TURRET_LIFESPAN]_vars

\* C20, amended: as above, but the deploying tick already takes one tick of
\* the turret's life, so the tick that removes the turret is the
\* (TURRET_LIFESPAN - 1)-th after the one that deployed it.
C20_ExpiresWithDeployingTickCounted ==
    /\ [](\A i \in DOMAIN turrets : turrets[i].life > 0)
    /\ [][/\ TurretsAge
          /\ \A n \in 1..TurretTicks :
                 LastTurretExpiresInCall(n)
                 => n = deployedAt + TURRET_LIFESPAN - 1]_vars

\* The second gameLoop call deployed a turret, and the call that has just
\* ended, TURRET_LIFESPAN - 1 calls later and in the same level, left the
\* store without it.
C20_Witness ==
    /\ deployedAt = 2
    /\ ticks = deployedAt + TURRET_LIFESPAN - 1
    /\ levelIndex = 0
    /\ turrets = << >>

----------------------------------------------------------------------------
(* C21 *)

\* The rectangle's corner (x, y) is inside the playfield extended by 100
\* units on each of its four sides.
WithinMargin(b) ==
    /\ \/ Less(Exact(-100 * Px), D(b, "x"))
       \/ b.x = -100 * Px /\ Below(b).x > 0
    /\ Less(D(b, "x"), Exact(GAME_WIDTH + 100 * Px))
    /\ \/ Less(Exact(-100 * Px), D(b, "y"))
       \/ b.y = -100 * Px /\ Below(b).y > 0
    /\ Less(D(b, "y"), Exact(GAME_HEIGHT + 100 * Px))

\* C21: a projectile that is in the store before and after a tick is within
\* the margin after it; a projectile whose move takes it beyond the margin
\* is not in the store after the tick, and the tick has no damage event of
\* it and creates no explosion where it is.
C21_ProjectilesStayWithinMargin ==
    [][\A i \in DOMAIN bullets : \A m \in { MoveBullet(bullets[i]) } :
          /\ \A j \in DOMAIN bullets' :
                 bullets'[j].id = m.id => WithinMargin(bullets'[j])
          /\ ~WithinMargin(m)
             => /\ m.id \notin Ids(bullets')
                /\ \A e \in DOMAIN damageEvents' :
                       damageEvents'[e].bullet # m.id
                /\ \A e \in DOMAIN explosions' :
                       explosions'[e].id \in Ids(explosions)
                       \/ explosions'[e].x # m.x
                       \/ explosions'[e].y # m.y]_vars

----------------------------------------------------------------------------
(* C22 *)

\* The pickups the avatar overlaps at the start of the tick.
Reached == { i \in DOMAIN powerUps : checkCollision(player, powerUps[i]) }

\* C22: the active effect is none or one pickup kind, and a timer of 0
\* means no active effect; a tick in which the avatar overlaps a pickup
\* leaves the kind of an overlapped pickup as the active effect, whatever
\* it was, and POWERUP_DURATION as the timer; any other tick takes one from
\* the timer (not below 0), and clears the effect if that gives 0.
C22_OneEffectCountingDown ==
    /\ [](/\ player.activePowerUp \in PowerUpTypes \cup {NoPowerUp}
          /\ player.powerUpTimer >= 0
          /\ player.powerUpTimer = 0 => player.activePowerUp = NoPowerUp)
    /\ [][IF Reached # {}
          THEN /\ \E i \in Reached :
                      player'.activePowerUp = powerUps[i].powerUpType
               /\ player'.powerUpTimer = POWERUP_DURATION
          ELSE /\ player'.powerUpTimer = Max(0, player.powerUpTimer - 1)
               /\ player'.activePowerUp =
                      IF player'.powerUpTimer = 0 THEN NoPowerUp
                      ELSE player.activePowerUp]_vars

\* The effect of the second pickup, which replaced the effect of the first
\* pickup, of another kind, has just run out: the last tick took its timer
\* to 0 and cleared it.
C22_Witness ==
    /\ powerUps = << >>
    /\ player.powerUpTimer = 0
    /\ player.activePowerUp = NoPowerUp
    /\ ticks > POWERUP_DURATION
    /\ ticks < PickupTicks

----------------------------------------------------------------------------
(* C23 *)

\* The entities in the stores, the avatar first.
Entities ==
    << player >> \o enemies \o bullets \o cages \o crates \o explosions
    \o turrets \o powerUps

\* C23: no two entities in the stores share an identifier and every
\* identifier in the stores was issued (it is below the factory's counter);
\* an entity that is in a store after a tick and was in none before it has
\* an identifier the factory issued in that tick, which is greater than
\* every identifier issued before.
C23_IdentifiersNeverReused ==
    /\ [](/\ Cardinality(Ids(Entities)) = Len(Entities)
          /\ \A id \in Ids(Entities) : id < idCounter)
    /\ [][\A id \in Ids(Entities') \ Ids(Entities) :
              id >= idCounter /\ id < idCounter']_vars

\* The second level has been built after the avatar fired and used its
\* special ability in the first: its hostile has a greater identifier than
\* every entity built for the first level and than the projectiles fired
\* in it, and projectiles fired since are in flight.
C23_Witness ==
    /\ levelIndex = 1
    /\ enemies # << >>
    /\ \A i \in DOMAIN enemies : enemies[i].id > 6 + 8
    /\ bullets # << >>
    /\ player.specialAbilityCooldown > 0

----------------------------------------------------------------------------
(* C24 *)

RECURSIVE Bounty(_)
\* The score of the kills it takes to complete the levels from number i on:
\* 100 for each hostile of the level data and 5000 for each major threat.
Bounty(i) ==
    IF i > Len(levels) THEN 0
    ELSE 100 * Len(levels[i].enemies) + 5000 * Len(levels[i].boss)
         + Bounty(i + 1)

\* C24: the tick that takes the level index past the last level emits one
\* game-over signal, with the score as it is after the tick, which includes
\* the score of every kill it took to complete the levels; and it builds no
\* hostile, terrain block or cage.
C24_GameOverPastLastLevel ==
    [][(levelIndex < Len(levels) /\ levelIndex' >= Len(levels))
       => /\ gameOverCalls' = Append(gameOverCalls, score')
          /\ score' >= Bounty(1)
          /\ Ids(enemies' \o crates' \o cages')
                 \subseteq Ids(enemies \o crates \o cages)]_vars

----------------------------------------------------------------------------
(* C25 *)

\* C25: createPlayer(hero, n) returns an avatar of type 'player' with n
\* lives and health = maxHealth = PLAYER_MAX_HEALTH; createEnemy with a
\* base without maxHealth and health returns a hostile of type 'enemy' with
\* the isBoss flag of the base and health = maxHealth = BOSS_MAX_HEALTH for
\* a major threat, ENEMY_MAX_HEALTH for another hostile; and when the base
\* has no aiBehavior either, the tag is 'boss' for a major threat and
\* 'stationary' for another hostile.
C25_FactoryDefaults ==
    /\ called.op = "createPlayer"
       => /\ called.result.type = "player"
          /\ called.result.lives = called.lives
          /\ called.result.health = PLAYER_MAX_HEALTH
          /\ called.result.maxHealth = PLAYER_MAX_HEALTH
    /\ (/\ called.op = "createEnemy"
        /\ "maxHealth" \notin DOMAIN called.base
        /\ "health" \notin DOMAIN called.base)
       => /\ called.result.type = "enemy"
          /\ called.result.isBoss = called.base.isBoss
          /\ called.result.maxHealth =
                 (IF called.base.isBoss THEN BOSS_MAX_HEALTH
                  ELSE ENEMY_MAX_HEALTH)
          /\ called.result.health = called.result.maxHealth
          /\ "aiBehavior" \notin DOMAIN called.base
             => called.result.aiBehavior =
                    (IF called.base.isBoss THEN "boss" ELSE "stationary")

\* The script has created an avatar and a hostile before, and its last call
\* was createEnemy for a major threat with no maxHealth, health or
\* aiBehavior in the base.
C25_Witness ==
    /\ idCounter = FactoryIds
    /\ called.op = "createEnemy"
    /\ called.base.isBoss
    /\ DOMAIN called.base \cap {"maxHealth", "health", "aiBehavior"} = {}
    /\ called.result.health = BOSS_MAX_HEALTH

----------------------------------------------------------------------------
(* C26 *)

Opposite(d) == IF d = "right" THEN "left" ELSE "right"

\* C26: in a gameLoop call with a jump requested at most one jump branch is
\* taken, by priority: with the coyote counter above 0 a ground jump;
\* otherwise, wall sliding, a wall jump, which flips the facing and pushes
\* the avatar one PLAYER_SPEED step away from the wall; otherwise a double
\* jump, and only with a movement trait that includes double-jump and the
\* hasDoubleJumped flag false.  Between two groundings there is at most
\* one double jump, and a ground or wall jump never sets hasDoubleJumped.
C26_JumpPriority ==
    /\ [](lastJump.doubles <= 1)
    /\ [][ticks' # ticks =>
            LET j == lastJump'
                wall == j.jumpCmd /\ j.coyote <= 0 /\ j.isWallSliding
            IN  /\ ~j.jumpCmd => j.branch = "none"
                /\ (j.jumpCmd /\ j.coyote > 0) <=> j.branch = "ground"
                /\ wall <=> j.branch = "wall"
                /\ j.branch = "double"
                      <=> /\ j.jumpCmd /\ j.coyote <= 0 /\ ~j.isWallSliding
                          /\ Has(player.hero.movementAbility, "double")
                          /\ ~player.hasDoubleJumped
                /\ jumpHonoured' - jumpHonoured
                      = (IF j.branch = "none" THEN 0 ELSE 1)
                /\ j.branch \in {"ground", "double"}
                      => yVelocity' = -PLAYER_JUMP_FORCE
                /\ j.branch = "wall"
                      => /\ yVelocity' = -((PLAYER_JUMP_FORCE * 11) \div 10)
                         /\ player'.direction = Opposite(player.direction)
                         /\ player'.x
                                = player.x - j.wallSide * PLAYER_SPEED
                /\ j.branch = "double" => player'.hasDoubleJumped
                /\ j.branch \in {"ground", "wall"}
                      => (player'.hasDoubleJumped => player.hasDoubleJumped)
       ]_vars

----------------------------------------------------------------------------
(* C27 *)

\* A hostile e may stand at x: inside the world and clear of every terrain
\* block.
Admits(e, x) ==
    /\ ~Less(x, Exact(0))
    /\ ~Less(Exact(GAME_WIDTH - e.width), x)
    /\ \A i \in DOMAIN crates : ~checkCollision(Put(e, "x", x), crates[i])

\* The x the behaviour of hostile e moves it to in a gameLoop call, before
\* the move is accepted or rejected.
Wanted(e) ==
    LET ex == D(e, "x")
        tx == D(player, "x")
        speed == D(e, "moveSpeed")
        toAvatar == IF Less(ex, tx) THEN speed ELSE Neg(speed)
        along == IF e.direction = "right" THEN speed ELSE Neg(speed)
        inChase == /\ Less(AbsD(Minus(tx, ex)), Exact(400 * Px))
                   /\ Abs(player.y - e.y) < 100 * Px
    IN  CASE e.aiBehavior = "boss" -> Plus(ex, toAvatar)
          [] e.aiBehavior = "chase" /\ inChase -> Plus(ex, toAvatar)
          [] e.aiBehavior = "patrol" -> Plus(ex, along)
          [] OTHER -> ex

\* C27: a hostile's x stays within 0 and GAME_WIDTH - width; a move that
\* would leave that range or overlap a terrain block leaves x unchanged in
\* that gameLoop call, and the rejection flips the facing of a patrol
\* hostile and of no other: a rejected boss or chase hostile faces the
\* avatar, as it does after an accepted move.
C27_HostilesStayInWorld ==
    /\ [](\A i \in DOMAIN enemies :
             /\ ~Less(D(enemies[i], "x"), Exact(0))
             /\ ~Less(Exact(GAME_WIDTH - enemies[i].width), D(enemies[i], "x")))
    /\ [][\A i \in DOMAIN enemies : \A k \in DOMAIN enemies' :
            enemies'[k].id = enemies[i].id =>
               LET e == enemies[i]
                   after == enemies'[k]
                   toAvatar == IF Less(D(e, "x"), D(player, "x"))
                               THEN "right" ELSE "left"
               IN  IF Admits(e, Wanted(e))
                   THEN /\ D(after, "x") = Wanted(e)
                        /\ e.aiBehavior = "patrol"
                              => after.direction = e.direction
                   ELSE /\ D(after, "x") = D(e, "x")
                        /\ after.direction =
                              (IF e.aiBehavior = "patrol"
                               THEN Opposite(e.direction) ELSE toAvatar)
       ]_vars

\* A patrol hostile has walked right into a terrain block and turned, and
\* a chase hostile stands blocked on its way to the avatar.
C27_Witness ==
    /\ \E i \in DOMAIN enemies :
          /\ enemies[i].aiBehavior = "patrol"
          /\ enemies[i].direction = "left"
          /\ \E c \in DOMAIN crates :
                checkCollision(
                    Put(enemies[i], "x",
                        Plus(D(enemies[i], "x"), D(enemies[i], "moveSpeed"))),
                    crates[c])
    /\ \E i \in DOMAIN enemies :
          /\ enemies[i].aiBehavior = "chase"
          /\ Wanted(enemies[i]) # D(enemies[i], "x")
          /\ ~Admits(enemies[i], Wanted(enemies[i]))

----------------------------------------------------------------------------
(* C28 *)

\* Where the hostiles of level lvlIdx are created: the places of the level
\* data and the two places of the reinforcement spawn.
CreationSpots(lvlIdx) ==
    { << Exact(sp.x), Exact(sp.y) >> :
        sp \in Range(levels[lvlIdx + 1].enemies)
                \cup Range(levels[lvlIdx + 1].boss) }
    \cup { << Exact(10 * Px), Exact(GAME_HEIGHT - 50 * Px - ENEMY_HEIGHT) >>,
           << Exact(GAME_WIDTH - ENEMY_WIDTH - 10 * Px),
              Exact(GAME_HEIGHT - 50 * Px - ENEMY_HEIGHT) >> }

\* C28: the behaviour tag of a hostile is the same after every gameLoop
\* call as before it, from its creation to its removal, and a stationary
\* hostile has after every call the x and y of its creation.
C28_TagsAndStationaryStay ==
    /\ [](\A i \in DOMAIN enemies :
             enemies[i].aiBehavior = "stationary"
                => Pos(enemies[i]) \in CreationSpots(levelIndex))
    /\ [][\A i \in DOMAIN enemies : \A k \in DOMAIN enemies' :
            enemies'[k].id = enemies[i].id =>
               /\ enemies'[k].aiBehavior = enemies[i].aiBehavior
               /\ enemies[i].aiBehavior = "stationary"
                     => Pos(enemies'[k]) = Pos(enemies[i])
       ]_vars

\* A stationary hostile has been through the AI updater with the avatar in
\* its range, has fired, and has been through the damage map with a hit
\* that it survived.
C28_Witness ==
    \E i \in DOMAIN enemies :
        /\ enemies[i].aiBehavior = "stationary"
        /\ Less(AbsD(Minus(D(player, "x"), D(enemies[i], "x"))),
                Exact(500 * Px))
        /\ enemies[i].shootCooldown >= 80 * H
        /\ enemies[i].health > 0
        /\ enemies[i].health < enemies[i].maxHealth

----------------------------------------------------------------------------
(* C29 *)

\* The range and facing condition under which the behaviour of hostile e
\* lets it fire at the avatar.
MayFire(e) ==
    LET ex == D(e, "x")
        tx == D(player, "x")
        dx == AbsD(Minus(tx, ex))
        dy == Abs(player.y - e.y)
    IN  CASE e.aiBehavior = "boss" ->
                Less(dx, Exact(600 * Px)) /\ dy < 250 * Px
          [] e.aiBehavior = "chase" ->
                /\ Less(dx, Exact(400 * Px)) /\ dy < 100 * Px
                /\ Less(dx, Exact(300 * Px))
          [] e.aiBehavior = "patrol" ->
                /\ Less(dx, Exact(400 * Px)) /\ dy < 50 * Px
                /\ \/ e.direction = "right" /\ Less(ex, tx)
                   \/ e.direction = "left" /\ Less(tx, ex)
          [] OTHER -> Less(dx, Exact(500 * Px)) /\ dy < 50 * Px

\* Hostile id fires in this gameLoop call.
FiresNow(id) == id \in DOMAIN firedAt' /\ firedAt'[id] = ticks'

\* C29, with the cooldown of a shot from 90 up to 150, 150 included: every
\* gameLoop call decrements the cooldown of every hostile by one; a hostile
\* fires only in a call in which the decremented cooldown is 0 or less and
\* the range and facing condition of its behaviour holds; a shot sets the
\* cooldown to a value from 90 to 150; and two shots of one hostile are at
\* least 90 calls apart.
C29_HostileCooldownUpTo150 ==
    [][\A i \in DOMAIN enemies : \A k \in DOMAIN enemies' :
         enemies'[k].id = enemies[i].id =>
            LET e == enemies[i]
                after == enemies'[k]
            IN  IF FiresNow(e.id)
                THEN /\ e.shootCooldown - H <= 0
                     /\ MayFire(e)
                     /\ after.shootCooldown >= 90 * H
                     /\ after.shootCooldown <= 150 * H
                     /\ e.id \in DOMAIN firedAt
                           => ticks' - firedAt[e.id] >= 90
                ELSE after.shootCooldown = e.shootCooldown - H
      ]_vars

\* C29 as stated: every gameLoop call decrements the cooldown of every
\* hostile by one; a hostile fires only in a call in which the decremented
\* cooldown is 0 or less and the range and facing condition of its
\* behaviour holds; a shot sets the cooldown to a value from 90 to below
\* 150; and two shots of one hostile are at least 90 calls apart.
C29_HostileCooldown ==
    [][\A i \in DOMAIN enemies : \A k \in DOMAIN enemies' :
         enemies'[k].id = enemies[i].id =>
            LET e == enemies[i]
                after == enemies'[k]
            IN  IF FiresNow(e.id)
                THEN /\ e.shootCooldown - H <= 0
                     /\ MayFire(e)
                     /\ after.shootCooldown >= 90 * H
                     /\ after.shootCooldown < 150 * H
                     /\ e.id \in DOMAIN firedAt
                           => ticks' - firedAt[e.id] >= 90
                ELSE after.shootCooldown = e.shootCooldown - H
      ]_vars

\* A hostile fired for the second time in the last gameLoop call, its
\* shot before that had set the longest cooldown, and this shot has set
\* the cooldown to 150.
C29_Witness ==
    \E i \in DOMAIN enemies :
        /\ enemies[i].id \in DOMAIN firedAt
        /\ firedAt[enemies[i].id] = ticks
        /\ ticks > 149
        /\ ticks < 180
        /\ enemies[i].shootCooldown = 150 * H

----------------------------------------------------------------------------
(* C30 *)

\* The projectiles of list with the given place, velocity and owner.
Shots(list, x, y, vx, vy, owner) ==
    { i \in DOMAIN list :
        /\ D(list[i], "x") = x /\ D(list[i], "y") = Exact(y)
        /\ D(list[i], "vx") = Exact(vx) /\ D(list[i], "vy") = Exact(vy)
        /\ list[i].owner = owner }

\* The vertical velocities of the projectiles of one hostile shot.
SpreadOf(diff) == IF diff = "HARD" THEN {0, 2 * Px, -2 * Px} ELSE {0}

\* C30: a hostile that fires creates exactly three projectiles of owner
\* 'enemy' on HARD, at one origin and with one horizontal velocity and the
\* vertical velocities 0, +2 and -2, and exactly one on EASY and NORMAL; a
\* turret that fires creates exactly one projectile on every difficulty.
C30_ProjectilesPerShot ==
    [][ticks' # ticks =>
        LET firing == { i \in DOMAIN enemies : FiresNow(enemies[i].id) }
            shooting == { k \in DOMAIN turrets' :
                            turrets'[k].shootCooldown = TURRET_SHOOT_COOLDOWN }
        IN  /\ Len(volley'.enemy)
                   = Cardinality(firing) * Cardinality(SpreadOf(difficulty))
            /\ \A i \in firing : \A vy \in SpreadOf(difficulty) :
                   LET e == enemies[i]
                       dir == IF Less(D(e, "x"), D(player, "x")) THEN 1
                              ELSE -1
                   IN  Shots(volley'.enemy,
                             Plus(D(e, "x"),
                                  Exact(IF dir = 1 THEN e.width
                                        ELSE -BULLET_WIDTH)),
                             e.y + e.height \div 2,
                             (dir * BULLET_SPEED * 8) \div 10, vy,
                             "enemy") # {}
            /\ Len(volley'.turret) = Cardinality(shooting)
            /\ \A i \in DOMAIN volley'.turret :
                   /\ volley'.turret[i].owner = "turret"
                   /\ volley'.turret[i].vy = 0
            /\ Eager /\ levelIndex' = levelIndex
                  => \A id \in Ids(volley'.enemy \o volley'.turret) :
                        id \in Ids(bullets')
      ]_vars

\* On HARD the hostile has fired in the last gameLoop call, its second shot,
\* and a turret that has fired several times stands in the store.
C30_Witness ==
    /\ difficulty = "HARD"
    /\ Len(volley.enemy) = 3
    /\ ticks > 90
    /\ \E i \in DOMAIN enemies :
          enemies[i].id \in DOMAIN firedAt /\ firedAt[enemies[i].id] = ticks
    /\ \E k \in DOMAIN turrets :
          /\ turrets[k].shootCooldown > 0
          /\ turrets[k].life < TURRET_LIFESPAN - TURRET_SHOOT_COOLDOWN

----------------------------------------------------------------------------
(* C31 *)

\* C31: the life of every explosion goes down by exactly one in every
\* gameLoop call, the call that creates it included, so it enters the
\* store with 14 of its 15; it leaves the store in the call in which its
\* life reaches 0, at most 15 calls after its creation; and no damage
\* event comes from an explosion: each one belongs to a projectile that
\* the call removes.
C31_ExplosionsDecay ==
    /\ [](\A i \in DOMAIN explosions :
             explosions[i].life >= 1 /\ explosions[i].life <= 14)
    /\ [][ticks' # ticks =>
            /\ \A i \in DOMAIN explosions :
                   IF explosions[i].life > 1
                   THEN \E k \in DOMAIN explosions' :
                           /\ explosions'[k].id = explosions[i].id
                           /\ explosions'[k].life = explosions[i].life - 1
                   ELSE explosions[i].id \notin Ids(explosions')
            /\ \A k \in DOMAIN explosions' :
                   explosions'[k].id \notin Ids(explosions)
                      => /\ explosions'[k].life = 14
                         /\ explosions'[k].id >= idCounter
            /\ Len(damageEvents')
                   <= Cardinality(Ids(bullets) \ Ids(bullets'))
       ]_vars

\* A projectile of the avatar has hit the hostile, which survived, and the
\* explosion of that hit has left the store.
C31_Witness ==
    /\ explosions = << >>
    /\ ticks >= 16
    /\ \E i \in DOMAIN enemies :
          enemies[i].health > 0 /\ enemies[i].health < enemies[i].maxHealth

----------------------------------------------------------------------------
(* C32 *)

\* C32: after every gameLoop call the avatar's x is at least 0 and at most
\* GAME_WIDTH - PLAYER_WIDTH, whatever it did in the call: walk, dash,
\* jump, or wall jump with its push to the side.
C32_AvatarStaysInWorld ==
    player.x >= 0 /\ player.x <= GAME_WIDTH - PLAYER_WIDTH

----------------------------------------------------------------------------
(* C33 *)

\* C33: in a gameLoop call that starts with the dash timer above 0 the
\* left and right keys do not change the horizontal step, which is 2.5
\* PLAYER_SPEED the way the avatar faces, or nothing when terrain rejects
\* it, and without a jump in that call the vertical velocity the call
\* stores is 0.
C33_DashOverridesInput ==
    [][(ticks' # ticks /\ player.dashTimer > 0) =>
          LET step == (IF player.direction = "right" THEN 1 ELSE -1)
                      * ((PLAYER_SPEED * 25) \div 10)
              dashed == IF player.x + step < 0 THEN 0
                        ELSE IF player.x + step > GAME_WIDTH - PLAYER_WIDTH
                        THEN GAME_WIDTH - PLAYER_WIDTH
                        ELSE player.x + step
          IN  /\ lastJump'.branch # "wall"
                    => /\ player'.x \in {player.x, dashed}
                       /\ player'.direction = player.direction
              /\ lastJump'.branch = "none" => yVelocity' = 0
      ]_vars

----------------------------------------------------------------------------
(* C34 *)

CollisionSpec == FactoryInit /\ [][TestCheckCollision]_vars

\* The rectangle of entity e and nothing else of it.
Bare(e) == [x |-> e.x, y |-> e.y, width |-> e.width, height |-> e.height]

\* C34: checkCollision(a, b) is true exactly when a.x < b.x + b.width,
\* b.x < a.x + a.width, a.y < b.y + b.height and b.y < a.y + a.height; it
\* gives the same for (b, a), the same for any entities with these
\* rectangles, and false for rectangles that share only an edge or a
\* corner.
C34_CheckCollision ==
    called.op = "checkCollision" =>
        LET a == called.a
            b == called.b
        IN  /\ called.result
                  <=> /\ a.x < b.x + b.width /\ b.x < a.x + a.width
                      /\ a.y < b.y + b.height /\ b.y < a.y + a.height
            /\ called.result <=> checkCollision(b, a)
            /\ called.result <=> checkCollision(Bare(a), Bare(b))
            /\ (\/ a.x + a.width = b.x \/ b.x + b.width = a.x
                \/ a.y + a.height = b.y \/ b.y + b.height = a.y)
                  => ~called.result

\* checkCollision was called with a terrain block and a projectile that
\* share one corner only.
C34_Witness ==
    /\ called.op = "checkCollision"
    /\ called.a.type = "crate" /\ called.b.type = "bullet"
    /\ called.a.x + called.a.width = called.b.x
    /\ called.a.y + called.a.height = called.b.y
    /\ ~called.result

----------------------------------------------------------------------------
(* C35 *)

\* Runs on HARD that go through the first level as above and cease fire in
\* the last level, where reinforcements keep arriving next to its hostile.
StandoffTicks == 520

StandoffInputs ==
    { Input(Approaching, Turning,
            ~Approaching /\ ~Turning /\ levelIndex = 0,
            FALSE, FALSE, FALSE, FALSE) }

StandoffStep ==
    ticks < StandoffTicks
    /\ \E inp \in StandoffInputs :
           Tick(inp, [CombatSamples EXCEPT
                        !.factors = QuietSamples.factors,
                        !.velocities = QuietSamples.velocities])

StandoffSpec ==
    InitFrom({ h \in DOMAIN Heroes : IsGrenade(Heroes[h].weaponType) },
             {"HARD"}, {"render", "eager"}, {"stationary"}, Fresh,
             Playing({BaseLevels, FlaggedLevels}))
    /\ [][StandoffStep]_vars

\* The hostiles of es that carry the isBoss flag, by id.
Flagged(es) == { es[i].id : i \in { j \in 1..Len(es) : es[j].isBoss } }

\* The descriptors of level lvlIdx that carry the flag: those of its
\* roster and its major threat.
FlaggedSpawns(lvlIdx) ==
    IF lvlIdx >= Len(levels) THEN 0
    ELSE LET levelData == levels[lvlIdx + 1]
         IN  Cardinality({ i \in DOMAIN levelData.enemies :
                             levelData.enemies[i].isBoss })
             + Cardinality({ i \in DOMAIN levelData.boss :
                               levelData.boss[i].isBoss })

----------------------------------------------------------------------------
(* C36 *)

\* The terrain blocks of store cs that the avatar p overlaps.
Overlapped(p, cs) == { i \in DOMAIN cs : checkCollision(p, cs[i]) }

\* C36: a tick that starts with the avatar overlapping no terrain block
\* ends with the avatar overlapping no terrain block, whatever the keys.
C36_AvatarOutsideTerrain ==
    [][(ticks' # ticks /\ levelIndex' = levelIndex
           /\ Overlapped(player, crates) = {})
          => Overlapped(player', crates') = {}]_vars

----------------------------------------------------------------------------
(* C37 *)

\* The avatar fired its weapon in the tick that led to this state.
JustFired == lastShot.weapon # "none" /\ lastShot.since = 0

\* C37: at the end of a tick in which the avatar fires its weapon the
\* stored bulletCooldown is above 0, for every weapon and every effect, and
\* so the avatar does not fire in the tick after one in which it fired.
C37_CooldownAfterFiring ==
    /\ [](JustFired => bulletCooldown > 0)
    /\ [][(JustFired /\ ticks' # ticks) => ~JustFired']_vars

\* The avatar has fired for the second time or a later one, and the
\* cooldown its shot stored is above 0.
C37_Witness ==
    /\ JustFired
    /\ ticks > 1
    /\ bulletCooldown > 0

----------------------------------------------------------------------------
(* C38 *)

\* C38: a mounted GameScreen calls onGameOver at most once, however many gameLoop
\* calls follow the one that finds the avatar at health <= 0 without a life
\* or the level index past the last level, and also while handleGameOver
\* waits for saveHighScore.
C38_GameOverOnce == Len(gameOverCalls) <= 1

\* onGameOver has been called once, past the last level, and the loop has
\* delivered further frames since while App has not rendered yet.
C38_Witness ==
    /\ Len(gameOverCalls) = 1
    /\ levelIndex = Len(levels)
    /\ gameState = "PLAYING"
    /\ Pending(appUpdates)
    /\ appUpdates.frames = RenderLag

----------------------------------------------------------------------------
(* C39 *)

\* C39: the avatar's health is at most its maxHealth in every state: the
\* heal of a completed level, a cage rescue, a profile swap and a respawn
\* leave it at or below maxHealth.
C39_HealthAtMostMax ==
    /\ player.health <= player.maxHealth
    /\ player.maxHealth = PLAYER_MAX_HEALTH

\* The first level is complete and its heal has acted on an avatar at full
\* health: the avatar is in the last level with health equal to maxHealth.
C39_Witness ==
    /\ levelIndex = 1
    /\ prevEnemiesCount > 0
    /\ player.health = player.maxHealth

----------------------------------------------------------------------------
(* retryOperation (src/hooks/useInput.ts, lines 110-139).  An error is     *)
(* what the catch block reads of it: its code, its status (0 when          *)
(* undefined), and its message as the set of the texts searched for that   *)
(* it contains, with "~" for a message that has other text only and the    *)
(* empty set for no message.                                               *)

MaxRetries == 3

RetryCounts == 0..MaxRetries

ApiErrors ==
    { [message |-> m, code |-> c, status |-> st] :
        m \in { {}, {"~"}, {"xhr error"}, {"fetch failed"}, {"503"}, {"429"},
                {"RESOURCE_EXHAUSTED"}, {"503", "429"} },
        c \in {0, 6, 500, 503},
        st \in {0, 429, 503} }

\* new Error("API Quota Exceeded. Please try again later.") of line 129.
QuotaExceeded ==
    [message |-> {"API Quota Exceeded. Please try again later."},
     code |-> 0, status |-> 0]

\* const msg = error.message || JSON.stringify(error) (line 115): the texts
\* searched for that msg contains.  The JSON text of an error without
\* message holds the digits of its code and status.
Msg(error) ==
    IF error.message # {} THEN error.message
    ELSE { t \in {"503", "429"} :
             \/ t = "503" /\ (error.code = 503 \/ error.status = 503)
             \/ t = "429" /\ error.status = 429 }

\* The catch block (lines 114-138) with a quota error retried like a
\* network error.
CaughtRetryingQuota(error, retries) ==
    LET msg == Msg(error)
        isNetworkError ==
            \/ "xhr error" \in msg \/ "fetch failed" \in msg \/ "503" \in msg
            \/ error.code = 500 \/ error.code = 503 \/ error.status = 503
            \/ error.code = 6
            \/ error.status = 429 \/ "429" \in msg
            \/ "RESOURCE_EXHAUSTED" \in msg
    IN  IF isNetworkError /\ retries > 0 THEN "retry"
        ELSE IF \/ error.status = 429 \/ "429" \in msg
                \/ "RESOURCE_EXHAUSTED" \in msg
        THEN "quota"
        ELSE "rethrow"

\* The catch block (lines 114-138): what it does with the error caught.
Caught(error, retries) ==
    LET msg == Msg(error)
        isNetworkError ==
            \/ "xhr error" \in msg \/ "fetch failed" \in msg \/ "503" \in msg
            \/ error.code = 500 \/ error.code = 503 \/ error.status = 503
            \/ error.code = 6
    IN  IF \/ error.status = 429 \/ "429" \in msg
           \/ "RESOURCE_EXHAUSTED" \in msg
        THEN "quota"
        ELSE IF isNetworkError /\ retries > 0 THEN "retry"
        ELSE "rethrow"

\* retryOperation touches nothing of the game.
GameUnchanged ==
    UNCHANGED << player, enemies, bullets, cages, crates, explosions,
              turrets, powerUps, score, levelIndex, bulletCooldown,
              yVelocity, coyoteTimeCounter, levelStartTime,
              reinforcementTimer, prevEnemiesCount, scoreRef,
              jumpBuffer, idCounter, now, difficulty, updaterMode,
              damageEvents, dropped, swapRequests, gameOverCalls,
              sounds, jumpHonoured, lastJump, lastShot, frame,
              deployedAt, firedAt, volley, called, levels, gameState,
              finalScore, characterData, appUpdates, ticks,
                    mounts >>

\* A caller calls retryOperation(operation, retries, delay); the callers of
\* the service leave retries and delay at their defaults 3 and 2000.
RetryStart ==
    /\ retry.phase = "idle"
    /\ \E n \in RetryCounts :
          retry' = [retry EXCEPT !.phase = "calling", !.given = n,
                                 !.retries = n, !.delay = 2000]
    /\ GameUnchanged

\* await operation() settles (line 113): with a value, which is returned,
\* or with an error, which the catch block handles.
Attempt ==
    /\ retry.phase = "calling"
    /\ \/ retry' = [retry EXCEPT !.phase = "done", !.attempts = @ + 1,
                                  !.outcome = "returned"]
       \/ \E error \in ApiErrors :
             LET do == Caught(error, retry.retries)
             IN  retry' =
                   [retry EXCEPT
                      !.attempts = @ + 1,
                      !.error = error,
                      !.phase = IF do = "retry" THEN "waiting" ELSE "done",
                      !.outcome = IF do = "retry" THEN @ ELSE "threw",
                      !.thrown = IF do = "quota" THEN QuotaExceeded
                                 ELSE IF do = "rethrow" THEN error ELSE @]
    /\ GameUnchanged

\* The timer of line 134 fires and retryOperation calls itself with one
\* retry less and twice the delay (line 135).
RetryWait ==
    /\ retry.phase = "waiting"
    /\ retry' = [retry EXCEPT !.phase = "calling",
                              !.waits = Append(@, retry.delay),
                              !.retries = @ - 1, !.delay = @ * 2]
    /\ GameUnchanged

RetryNext == RetryStart \/ Attempt \/ RetryWait

\* The operation's promise settles and the timer fires.
RetrySpec == FactoryInit /\ [][RetryNext]_vars /\ WF_vars(RetryNext)

----------------------------------------------------------------------------
(* C40 *)

\* A failure of the network class: xhr error, fetch failed, 503, code 500
\* or code 6.
Transient(e) ==
    \/ e.message \cap {"xhr error", "fetch failed", "503"} # {}
    \/ e.code \in {500, 503, 6}
    \/ e.status = 503

\* A quota failure: 429 or RESOURCE_EXHAUSTED.
Quota(e) ==
    e.status = 429 \/ e.message \cap {"429", "RESOURCE_EXHAUSTED"} # {}

\* C40: retryOperation calls the operation at most retries + 1 times, 4
\* with the defaults, and every call of it ends, with the operation's
\* value or with an error.  It calls the operation again only after a
\* failure of the network class, and waits 2000, 4000 and 8000 ms before
\* the second, third and fourth call.  A quota failure is never retried
\* and is reported as the error 'API Quota Exceeded. Please try again
\* later.'; any other failure is thrown again as it is, with no further
\* call.
C40_RetryOperation ==
    /\ [](/\ retry.attempts <= retry.given + 1
          /\ retry.given = 3 => retry.attempts <= 4
          /\ Len(retry.waits) = retry.given - retry.retries
          /\ \A i \in DOMAIN retry.waits : retry.waits[i] = 2000 * 2 ^ (i - 1)
          /\ retry.phase = "calling" => retry.attempts = Len(retry.waits)
          /\ retry.phase = "waiting"
                => /\ Transient(retry.error) /\ ~Quota(retry.error)
                   /\ retry.attempts = Len(retry.waits) + 1
          /\ (retry.phase = "calling" /\ retry.attempts > 0)
                => Transient(retry.error) /\ ~Quota(retry.error)
          /\ (retry.phase \in {"waiting", "done"} /\ retry.outcome # "returned"
                 /\ Quota(retry.error))
                => /\ retry.phase = "done" /\ retry.outcome = "threw"
                   /\ retry.thrown = QuotaExceeded
          /\ (retry.phase \in {"waiting", "done"} /\ retry.outcome # "returned"
                 /\ ~Quota(retry.error) /\ ~Transient(retry.error))
                => /\ retry.phase = "done" /\ retry.outcome = "threw"
                   /\ retry.thrown = retry.error
          /\ (retry.phase = "done" /\ retry.outcome = "threw"
                 /\ ~Quota(retry.error))
                => retry.thrown = retry.error)
    /\ (retry.phase = "calling") ~> (retry.phase = "done")

\* The operation failed three times with failures of the network class and
\* a fourth time with a quota failure: four calls, waits of 2000, 4000 and
\* 8000 ms, and the quota error thrown.
C40_Witness ==
    /\ retry.phase = "done"
    /\ retry.attempts = 4
    /\ retry.waits = << 2000, 4000, 8000 >>
    /\ Quota(retry.error)
    /\ retry.thrown = QuotaExceeded

====
